---- MODULE Spec2Model ----
(***************************************************************************)
(* A model of the RustyPHP interpreter: the value model of php-types, the  *)
(* tree-walking Engine of php-runtime, the switch parser of php-parser,    *)
(* the CLI driver and the engine pool of php-web.                          *)
(*                                                                         *)
(* Conventions.  Option<T> is a sequence of length at most one (None is    *)
(* <<>>, Some(x) is <<x>>).  A HashMap is a function with a finite domain. *)
(* A Rust String is a sequence of one-character strings; identifiers       *)
(* (variable, constant and function names) are TLA+ strings.  An f64 is    *)
(* modelled on the integral floats and NaN, which is all the programs of   *)
(* the model produce.  Result<T, String> is a record with the fields ok    *)
(* and err; every result also carries the engine as the call left it, so   *)
(* that the state an early return (the ? operator) leaves behind is kept.  *)
(***************************************************************************)
EXTENDS Integers, Sequences, FiniteSets, TLC

VARIABLES
    engine,     \* the Engine under execution
    obs,        \* what the last operation was given and what it returned
    steps,      \* number of operations performed so far
    arr,        \* a PhpArray under construction
    hist,       \* keys of arr in the order of their first insertion, and the largest Int key
    hasher,     \* the order in which the std HashMap of a PhpArray yields its keys
    pool,       \* EnginePool.engines
    reqs        \* the requests in flight at the pool

vars == <<engine, obs, steps, arr, hist, hasher, pool, reqs>>

(***************************************************************************)
(* Bounds of the model.                                                    *)
(***************************************************************************)
MaxIter == 8        \* iterations explored of one loop before it is cut off
MaxSteps == 4
MaxN == 5
MaxOps == 5
I64Max == 1073741823       \* operations in one behaviour of the engine specifications

None == <<>>
Some(x) == <<x>>
unwrap_or(opt, default) == IF opt = None THEN default ELSE opt[1]

EmptyMap == <<>>
MapPut(m, k, v) == (k :> v) @@ m
MapGet(m, k) == IF k \in DOMAIN m THEN Some(m[k]) ELSE None

(***************************************************************************)
(* PhpValue                                                                *)
(***************************************************************************)
VNull == [t |-> "Null"]
VBool(b) == [t |-> "Bool", b |-> b]
VInt(i) == [t |-> "Int", n |-> i]
VFloat(f) == [t |-> "Float", n |-> f, nan |-> FALSE]
VNaN == [t |-> "Float", n |-> 0, nan |-> TRUE]
VStr(s) == [t |-> "String", s |-> s]
VArr(a) == [t |-> "Array", a |-> a]

KInt(i) == [kt |-> "Int", i |-> i]
KStr(s) == [kt |-> "String", s |-> s]

PhpArrayNew == [data |-> EmptyMap, next_index |-> 0]

is_empty(a) == DOMAIN a.data = {}

\* i64: the model's integers are TLC's, so its i64 ends at I64Max instead of 2^63 - 1.
I64Min == 0 - I64Max - 1

\* i64 + i64 as a build without overflow checks computes it: two's complement.
wrapping_add(a, b) ==
    IF a + b > I64Max THEN I64Min + (a + b - I64Max - 1)
    ELSE IF a + b < I64Min THEN I64Max - (I64Min - (a + b) - 1)
    ELSE a + b

\* Whether a + b overflows i64: a build with overflow checks panics there.
overflows(a, b) == a + b > I64Max \/ a + b < I64Min

\* if key >= self.next_index { self.next_index = key + 1; }
insert_int_next(key, next_index) ==
    IF key >= next_index THEN wrapping_add(key, 1) ELSE next_index

\* insert_int panics, in a build with overflow checks, on key + 1.
insert_int_panics(a, key) == key >= a.next_index /\ overflows(key, 1)

insert_int(a, key, value) ==
    [data |-> MapPut(a.data, KInt(key), value),
     next_index |-> insert_int_next(key, a.next_index)]

insert_string(a, key, value) ==
    [data |-> MapPut(a.data, KStr(key), value), next_index |-> a.next_index]

push(a, value) == insert_int(a, a.next_index, value)

get_int(a, key) == MapGet(a.data, KInt(key))
get_string(a, key) == MapGet(a.data, KStr(key))

\* A null test that also takes a numeric zero for null.
is_null_or_zero(v) == v.t = "Null" \/ (v.t \in {"Int", "Float"} /\ v.n = 0)

is_null(v) == v.t = "Null"

is_truthy(v) ==
    CASE v.t = "Null" -> FALSE
      [] v.t = "Bool" -> v.b
      [] v.t = "Int" -> v.n # 0
      [] v.t = "Float" -> v.n # 0 /\ ~v.nan
      [] v.t = "String" -> v.s # <<>> /\ v.s # <<"0">>
      [] v.t = "Array" -> ~is_empty(v.a)
      [] OTHER -> TRUE

(***************************************************************************)
(* Text: decimal formatting and parsing, as Rust's to_string and parse do  *)
(* on the values of the model.                                             *)
(***************************************************************************)
Digits == <<"0", "1", "2", "3", "4", "5", "6", "7", "8", "9">>
DigitSet == {Digits[i] : i \in 1..10}
DigitVal(c) == (CHOOSE i \in 1..10 : Digits[i] = c) - 1

RECURSIVE NatToStr(_)
NatToStr(n) == IF n < 10 THEN <<Digits[n + 1]>>
               ELSE NatToStr(n \div 10) \o <<Digits[(n % 10) + 1]>>

IntToStr(i) == IF i < 0 THEN <<"-">> \o NatToStr(-i) ELSE NatToStr(i)

RECURSIVE DigitsToNat(_, _)
DigitsToNat(s, acc) == IF s = <<>> THEN acc
                       ELSE DigitsToNat(Tail(s), acc * 10 + DigitVal(Head(s)))

IsDigits(s) == s # <<>> /\ \A i \in 1..Len(s) : s[i] \in DigitSet

\* str::parse::<i64>: an optional sign and decimal digits, nothing else.
ParseInt(s) ==
    IF IsDigits(s) THEN Some(DigitsToNat(s, 0))
    ELSE IF Len(s) > 1 /\ s[1] = "-" /\ IsDigits(Tail(s)) THEN Some(-DigitsToNat(Tail(s), 0))
    ELSE IF Len(s) > 1 /\ s[1] = "+" /\ IsDigits(Tail(s)) THEN Some(DigitsToNat(Tail(s), 0))
    ELSE None

\* str::parse::<f64> on the texts of the model: integers and "NaN".
ParseFloat(s) ==
    IF s = <<"N", "a", "N">> THEN Some(VNaN)
    ELSE IF ParseInt(s) # None THEN Some(VFloat(ParseInt(s)[1]))
    ELSE None

to_int(v) ==
    CASE v.t = "Null" -> 0
      [] v.t = "Bool" -> IF v.b THEN 1 ELSE 0
      [] v.t = "Int" -> v.n
      [] v.t = "Float" -> IF v.nan THEN 0 ELSE v.n
      [] v.t = "String" -> IF ParseInt(v.s) = None THEN 0 ELSE ParseInt(v.s)[1]
      [] v.t = "Array" -> IF is_empty(v.a) THEN 0 ELSE 1
      [] OTHER -> 1

\* The f64 a value coerces to, as a Float value.
to_float(v) ==
    CASE v.t = "Null" -> VFloat(0)
      [] v.t = "Bool" -> IF v.b THEN VFloat(1) ELSE VFloat(0)
      [] v.t = "Int" -> VFloat(v.n)
      [] v.t = "Float" -> v
      [] v.t = "String" -> IF ParseFloat(v.s) = None THEN VFloat(0) ELSE ParseFloat(v.s)[1]
      [] v.t = "Array" -> IF is_empty(v.a) THEN VFloat(0) ELSE VFloat(1)
      [] OTHER -> VFloat(1)

to_string(v) ==
    CASE v.t = "Null" -> <<>>
      [] v.t = "Bool" -> IF v.b THEN <<"1">> ELSE <<>>
      [] v.t = "Int" -> IntToStr(v.n)
      [] v.t = "Float" -> IF v.nan THEN <<"N", "a", "N">> ELSE IntToStr(v.n)
      [] v.t = "String" -> v.s
      [] v.t = "Array" -> <<"A", "r", "r", "a", "y">>
      [] OTHER -> <<"O", "b", "j", "e", "c", "t">>

(***************************************************************************)
(* f64 arithmetic and comparison on the floats of the model.  A quotient   *)
(* is represented when it is exact, which every division of the model is.  *)
(***************************************************************************)
FAdd(x, y) == IF x.nan \/ y.nan THEN VNaN ELSE VFloat(x.n + y.n)
FSub(x, y) == IF x.nan \/ y.nan THEN VNaN ELSE VFloat(x.n - y.n)
FMul(x, y) == IF x.nan \/ y.nan THEN VNaN ELSE VFloat(x.n * y.n)
\* f64 / f64 on the integral floats of the model; the inputs divide exactly.
FDiv(x, y) == IF x.nan \/ y.nan THEN VNaN ELSE VFloat(x.n \div y.n)
FEq(x, y) == ~x.nan /\ ~y.nan /\ x.n = y.n
FLt(x, y) == ~x.nan /\ ~y.nan /\ x.n < y.n

\* Byte order of the characters the model's strings are made of.
Alphabet == <<" ", "$", "+", "-", "0", "1", "2", "3", "4", "5", "6", "7", "8", "9",
              "A", "B", "C", "D", "F", "N", "O", "T", "X", "_",
              "a", "b", "c", "d", "e", "f", "g", "i", "j", "k", "n", "o", "r", "t",
              "u", "v", "x", "y", "z">>
CharCode(c) == CHOOSE i \in 1..Len(Alphabet) : Alphabet[i] = c

RECURSIVE StrLess(_, _)
StrLess(a, b) ==
    IF b = <<>> THEN FALSE
    ELSE IF a = <<>> THEN TRUE
    ELSE IF Head(a) = Head(b) THEN StrLess(Tail(a), Tail(b))
    ELSE CharCode(Head(a)) < CharCode(Head(b))

IsNum(v) == v.t \in {"Int", "Float"}

php_add(left, right) ==
    IF left.t = "Int" /\ right.t = "Int" THEN VInt(left.n + right.n)
    ELSE FAdd(to_float(left), to_float(right))

php_subtract(left, right) ==
    IF left.t = "Int" /\ right.t = "Int" THEN VInt(left.n - right.n)
    ELSE FSub(to_float(left), to_float(right))

php_multiply(left, right) ==
    IF left.t = "Int" /\ right.t = "Int" THEN VInt(left.n * right.n)
    ELSE FMul(to_float(left), to_float(right))

\* A division that yields NaN where the divisor is zero.
php_divide_nan(left, right) ==
    [ok |-> TRUE, err |-> "",
     v |-> IF FEq(to_float(right), VFloat(0)) THEN VNaN
           ELSE FDiv(to_float(left), to_float(right))]

\* Result<PhpValue, String>
php_divide(left, right) ==
    IF FEq(to_float(right), VFloat(0))
    THEN [ok |-> FALSE, err |-> "Division by zero", v |-> VNull]
    ELSE [ok |-> TRUE, err |-> "", v |-> FDiv(to_float(left), to_float(right))]

php_concatenate(left, right) == VStr(to_string(left) \o to_string(right))

php_equals(left, right) ==
    CASE left.t = "Null" /\ right.t = "Null" -> TRUE
      [] left.t = "Bool" /\ right.t = "Bool" -> left.b = right.b
      [] left.t = "Int" /\ right.t = "Int" -> left.n = right.n
      [] left.t = "String" /\ right.t = "String" -> left.s = right.s
      [] IsNum(left) /\ IsNum(right) -> FEq(to_float(left), to_float(right))
      [] OTHER -> to_string(left) = to_string(right)

php_less_than(left, right) ==
    CASE left.t = "Int" /\ right.t = "Int" -> left.n < right.n
      [] left.t = "String" /\ right.t = "String" -> StrLess(left.s, right.s)
      [] OTHER -> FLt(to_float(left), to_float(right))

php_less_than_or_equal(left, right) == php_less_than(left, right) \/ php_equals(left, right)
php_greater_than(left, right) == ~php_less_than_or_equal(left, right)
php_greater_than_or_equal(left, right) == ~php_less_than(left, right)

(***************************************************************************)
(* The AST (php-parser, ast/expr.rs and ast/stmt.rs)                       *)
(***************************************************************************)
Variable(name) == [k |-> "Variable", name |-> name]
Constant(name) == [k |-> "Constant", name |-> name]
Number(n) == [k |-> "Number", n |-> n]
String(s) == [k |-> "String", s |-> s]
Bool(b) == [k |-> "Bool", b |-> b]
Null == [k |-> "Null"]
Binary(left, op, right) == [k |-> "Binary", left |-> left, op |-> op, right |-> right]
Unary(op, operand) == [k |-> "Unary", op |-> op, operand |-> operand]
FunctionCall(name, args) == [k |-> "FunctionCall", name |-> name, args |-> args]
ArrayElement(key, value) == [key |-> key, value |-> value]
Array(elements) == [k |-> "Array", elements |-> elements]
ArrayAccess(array, index) == [k |-> "ArrayAccess", array |-> array, index |-> index]
NullCoalesce(left, right) == [k |-> "NullCoalesce", left |-> left, right |-> right]
ArrowFunction(params, body) == [k |-> "ArrowFunction", params |-> params, body |-> body]
DynamicCall(target, args) == [k |-> "DynamicCall", target |-> target, args |-> args]
Ternary(condition, then_expr, else_expr) ==
    [k |-> "Ternary", condition |-> condition, then_expr |-> then_expr, else_expr |-> else_expr]

Expression(expr) == [k |-> "Expression", expr |-> expr]
Echo(expr) == [k |-> "Echo", expr |-> expr]
PrintStmt(expr) == [k |-> "Print", expr |-> expr]
Assignment(variable, value) == [k |-> "Assignment", variable |-> variable, value |-> value]
NullCoalesceAssign(variable, value) ==
    [k |-> "NullCoalesceAssign", variable |-> variable, value |-> value]
ConstantDefinition(name, value) == [k |-> "ConstantDefinition", name |-> name, value |-> value]
Block(statements) == [k |-> "Block", statements |-> statements]
If(condition, then_stmt, else_stmt) ==
    [k |-> "If", condition |-> condition, then_stmt |-> then_stmt, else_stmt |-> else_stmt]
While(condition, body) == [k |-> "While", condition |-> condition, body |-> body]
For(init, condition, increment, body) ==
    [k |-> "For", init |-> init, condition |-> condition, increment |-> increment, body |-> body]
Foreach(array, value_var, key_var, body) ==
    [k |-> "Foreach", array |-> array, value_var |-> value_var, key_var |-> key_var, body |-> body]
Return(expr_opt) == [k |-> "Return", expr_opt |-> expr_opt]
Break == [k |-> "Break"]
Continue == [k |-> "Continue"]
FunctionDefinition(name, parameters, body) ==
    [k |-> "FunctionDefinition", name |-> name, parameters |-> parameters, body |-> body]
SwitchCase(value, statements) == [value |-> value, statements |-> statements]
Switch(expression, cases, default) ==
    [k |-> "Switch", expression |-> expression, cases |-> cases, default |-> default]
StaticVar(name, initial) == [k |-> "StaticVar", name |-> name, initial |-> initial]

(***************************************************************************)
(* Engine (php-runtime, engine.rs)                                         *)
(***************************************************************************)
EngineNew ==
    [variables |-> ("_GET" :> VArr(PhpArrayNew)),
     constants |-> ("JSON_UNESCAPED_SLASHES" :> VInt(1)) @@ ("JSON_UNESCAPED_UNICODE" :> VInt(2))
                   @@ ("JSON_THROW_ON_ERROR" :> VInt(4)) @@ ("FILTER_VALIDATE_INT" :> VInt(257)),
     functions |-> EmptyMap,
     output |-> <<>>,
     static_storage |-> EmptyMap,
     static_var_stack |-> <<>>,
     current_function |-> None,
     output_buffers |-> <<>>]

Function(params, body) == [params |-> params, body |-> body]

set_variable(e, name, value) == [e EXCEPT !.variables = MapPut(@, name, value)]
set_constant(e, name, value) == [e EXCEPT !.constants = MapPut(@, name, value)]
get_variable(e, name) == MapGet(e.variables, name)

\* A lookup that finds null under every name that is not defined.
get_constant_or_null(e, name) ==
    IF name \in DOMAIN e.constants THEN Some(e.constants[name]) ELSE Some(VNull)

get_constant(e, name) == MapGet(e.constants, name)

get_output(e) == e.output

\* An output that ignores the output buffers.
write_output_unbuffered(e, text) == [e EXCEPT !.output = @ \o text]

write_output(e, text) ==
    IF e.output_buffers # <<>>
    THEN [e EXCEPT !.output_buffers[Len(e.output_buffers)] = @ \o text]
    ELSE [e EXCEPT !.output = @ \o text]

\* Result<PhpValue, String> and Result<ExecSignal, String>, with the engine left behind.
EvOk(e, v) == [e |-> e, ok |-> TRUE, err |-> "", v |-> v]
EvErr(e, msg) == [e |-> e, ok |-> FALSE, err |-> msg, v |-> VNull]
SigOk(e, sig, rv) == [e |-> e, ok |-> TRUE, err |-> "", sig |-> sig, rv |-> rv]
SigErr(e, msg) == [e |-> e, ok |-> FALSE, err |-> msg, sig |-> "None", rv |-> None]

\* The model's cut-off of a loop that has not ended after MaxIter iterations.
CutOff == "loop cut off"

Letters == {"A", "B", "C", "D", "F", "N", "O", "T", "X",
            "a", "b", "c", "d", "e", "f", "g", "i", "j", "k", "n", "o", "r", "t",
            "u", "v", "x", "y", "z"}

RECURSIVE JoinChars(_)
JoinChars(s) == IF s = <<>> THEN "" ELSE Head(s) \o JoinChars(Tail(s))

RECURSIVE IdentEnd(_, _)
IdentEnd(s, j) ==
    IF j <= Len(s) /\ (s[j] \in Letters \/ s[j] \in DigitSet \/ s[j] = "_")
    THEN IdentEnd(s, j + 1) ELSE j

RECURSIVE InterpolateFrom(_, _, _)
InterpolateFrom(variables, s, i) ==
    IF i > Len(s) THEN <<>>
    ELSE IF s[i] # "$" THEN <<s[i]>> \o InterpolateFrom(variables, s, i + 1)
    ELSE IF i + 1 <= Len(s) /\ (s[i + 1] \in Letters \/ s[i + 1] = "_")
    THEN LET j == IdentEnd(s, i + 2)
             var_name == JoinChars(SubSeq(s, i + 1, j - 1))
         IN (IF var_name \in DOMAIN variables
             THEN to_string(variables[var_name])
             ELSE <<"$">> \o SubSeq(s, i + 1, j - 1))
            \o InterpolateFrom(variables, s, j)
    ELSE <<"$">> \o InterpolateFrom(variables, s, i + 1)

interpolate_string(e, input) == InterpolateFrom(e.variables, input, 1)

\* Bitwise and / or of two non-negative i64, which is what the model applies them to.
RECURSIVE BitAnd(_, _)
BitAnd(a, b) == IF a = 0 \/ b = 0 THEN 0
                ELSE (a % 2) * (b % 2) + 2 * BitAnd(a \div 2, b \div 2)
RECURSIVE BitOr(_, _)
BitOr(a, b) == IF a = 0 THEN b ELSE IF b = 0 THEN a
               ELSE (IF a % 2 = 1 \/ b % 2 = 1 THEN 1 ELSE 0) + 2 * BitOr(a \div 2, b \div 2)

\* Ordering of BinaryOp::Spaceship: -1, 0 or 1.
spaceship(l, r) ==
    CASE l.t = "Int" /\ r.t = "Int" -> IF l.n < r.n THEN -1 ELSE IF l.n = r.n THEN 0 ELSE 1
      [] IsNum(l) /\ IsNum(r) ->
            IF FLt(to_float(l), to_float(r)) THEN -1
            ELSE IF FLt(to_float(r), to_float(l)) THEN 1 ELSE 0
      [] OTHER -> IF StrLess(to_string(l), to_string(r)) THEN -1
                  ELSE IF to_string(l) = to_string(r) THEN 0 ELSE 1

binary_op(op, left_val, right_val, e) ==
    CASE op = "Add" -> EvOk(e, php_add(left_val, right_val))
      [] op = "Subtract" -> EvOk(e, php_subtract(left_val, right_val))
      [] op = "Multiply" -> EvOk(e, php_multiply(left_val, right_val))
      [] op = "Divide" ->
            LET d == php_divide(left_val, right_val)
            IN IF d.ok THEN EvOk(e, d.v) ELSE EvErr(e, d.err)
      [] op = "Concatenate" -> EvOk(e, php_concatenate(left_val, right_val))
      [] op = "Equal" -> EvOk(e, VBool(php_equals(left_val, right_val)))
      [] op = "NotEqual" -> EvOk(e, VBool(~php_equals(left_val, right_val)))
      [] op = "LessThan" -> EvOk(e, VBool(php_less_than(left_val, right_val)))
      [] op = "LessThanOrEqual" -> EvOk(e, VBool(php_less_than_or_equal(left_val, right_val)))
      [] op = "GreaterThan" -> EvOk(e, VBool(php_greater_than(left_val, right_val)))
      [] op = "GreaterThanOrEqual" ->
            EvOk(e, VBool(php_greater_than_or_equal(left_val, right_val)))
      [] op = "Spaceship" -> EvOk(e, VInt(spaceship(left_val, right_val)))
      [] op = "BitwiseAnd" -> EvOk(e, VInt(BitAnd(to_int(left_val), to_int(right_val))))
      [] op = "BitwiseOr" -> EvOk(e, VInt(BitOr(to_int(left_val), to_int(right_val))))
      [] op = "LogicalAnd" -> EvOk(e, VBool(is_truthy(left_val) /\ is_truthy(right_val)))
      [] op = "LogicalOr" -> EvOk(e, VBool(is_truthy(left_val) \/ is_truthy(right_val)))
      [] OTHER -> EvErr(e, "Binary operator not implemented")

\* ++ and -- on a variable: d is 1 or -1; the result is the old or the new value.
unary_op(op, operand, e) ==
    IF op \notin {"PostIncrement", "PostDecrement", "PreIncrement", "PreDecrement"}
    THEN EvErr(e, "Unary operator not implemented")
    ELSE IF operand.k # "Variable"
    THEN EvErr(e, "operator can only be applied to variables")
    ELSE LET d == IF op \in {"PostIncrement", "PreIncrement"} THEN 1 ELSE -1
             current_val == IF operand.name \in DOMAIN e.variables
                            THEN e.variables[operand.name] ELSE VInt(0)
             new_val == CASE current_val.t = "Int" -> VInt(current_val.n + d)
                          [] current_val.t = "Float" -> FAdd(current_val, VFloat(d))
                          [] OTHER -> VInt(d)
         IN EvOk(set_variable(e, operand.name, new_val),
                 IF op \in {"PostIncrement", "PostDecrement"} THEN current_val ELSE new_val)

\* The truthiness rule written out inside Stmt::If.
if_is_truthy(condition_val) ==
    CASE condition_val.t = "Bool" -> condition_val.b
      [] condition_val.t = "Null" -> FALSE
      [] condition_val.t = "Int" /\ condition_val.n = 0 -> FALSE
      [] condition_val.t = "Float" -> condition_val.nan \/ condition_val.n # 0
      [] condition_val.t = "String" -> condition_val.s # <<>> /\ condition_val.s # <<"0">>
      [] OTHER -> TRUE

\* for (array_key, value) in &arr.data: the keys in the order the HashMap yields them.
HashIter(data) == SelectSeq(hasher, LAMBDA key : key \in DOMAIN data)

Builtins == {"define", "isset", "parse_str", "array_merge", "getenv", "array_sum",
             "str_repeat", "usort", "iterator_to_array", "json_encode", "json_decode",
             "set_error_handler", "preg_match", "filter_var", "ob_start", "ob_get_clean",
             "printf", "implode"}

Range(s) == {s[i] : i \in 1..Len(s)}

(***************************************************************************)
(* json_encode and json_decode.                                            *)
(***************************************************************************)
\* escape_str on one character; the characters of the model are ASCII, so the
\* \uXXXX arms for control characters below ' ' and for code points above 0x7F
\* are never taken and unesc_unicode makes no difference.
escape_char(ch, unesc_slash) ==
    CASE ch = "\"" -> <<"\\", "\"">>
      [] ch = "\\" -> <<"\\", "\\">>
      [] ch = "/" -> IF unesc_slash THEN <<"/">> ELSE <<"\\", "/">>
      [] ch = "\n" -> <<"\\", "n">>
      [] ch = "\r" -> <<"\\", "r">>
      [] ch = "\t" -> <<"\\", "t">>
      [] OTHER -> <<ch>>

RECURSIVE escape_str(_, _, _)
escape_str(s, unesc_slash, unesc_unicode) ==
    IF s = <<>> THEN <<>>
    ELSE escape_char(Head(s), unesc_slash) \o escape_str(Tail(s), unesc_slash, unesc_unicode)

\* The list detection of encode: every key the map yields is the Int that counts
\* the keys yielded before it.
is_list(keys) == \A i \in 1..Len(keys) : keys[i].kt = "Int" /\ keys[i].i = i - 1

key_str(k) == IF k.kt = "Int" THEN IntToStr(k.i) ELSE k.s

\* for (k, v) in arr.data.iter(): the parts of a list or of an object, joined by ",".
RECURSIVE encode(_, _, _), EncodeParts(_, _, _, _, _, _)
EncodeParts(data, keys, i, list, unesc_slash, unesc_unicode) ==
    IF i > Len(keys) THEN <<>>
    ELSE (IF i > 1 THEN <<",">> ELSE <<>>)
         \o (IF list THEN <<>>
             ELSE <<"\"">> \o escape_str(key_str(keys[i]), unesc_slash, unesc_unicode)
                  \o <<"\"", ":">>)
         \o encode(data[keys[i]], unesc_slash, unesc_unicode)
         \o EncodeParts(data, keys, i + 1, list, unesc_slash, unesc_unicode)

encode(value, unesc_slash, unesc_unicode) ==
    CASE value.t = "Null" -> <<"n", "u", "l", "l">>
      [] value.t = "Bool" -> IF value.b THEN <<"t", "r", "u", "e">>
                             ELSE <<"f", "a", "l", "s", "e">>
      [] value.t = "Int" -> IntToStr(value.n)
      [] value.t = "Float" -> IF value.nan THEN <<"n", "u", "l", "l">> ELSE IntToStr(value.n)
      [] value.t = "String" ->
            <<"\"">> \o escape_str(value.s, unesc_slash, unesc_unicode) \o <<"\"">>
      [] value.t = "Array" ->
            IF is_list(HashIter(value.a.data))
            THEN <<"[">> \o EncodeParts(value.a.data, HashIter(value.a.data), 1, TRUE,
                                        unesc_slash, unesc_unicode) \o <<"]">>
            ELSE <<"{">> \o EncodeParts(value.a.data, HashIter(value.a.data), 1, FALSE,
                                        unesc_slash, unesc_unicode) \o <<"}">>
      [] OTHER -> <<"n", "u", "l", "l">>

\* flags of json_encode, assoc of json_decode, from the second argument.
json_flags(v) == IF v.t = "Int" \/ (v.t = "Float" /\ ~v.nan) THEN v.n ELSE 0
json_assoc(v) == CASE v.t = "Bool" -> v.b [] v.t = "Int" -> v.n # 0 [] OTHER -> TRUE

\* serde_json::Value.  An object keeps its entries as they were read; a later entry
\* of the same key replaces the earlier one when the entries are inserted.
JNull == [j |-> "Null"]
JBool(b) == [j |-> "Bool", b |-> b]
JNumber(n, int) == [j |-> "Number", n |-> n, int |-> int]
JString(s) == [j |-> "String", s |-> s]
JArray(items) == [j |-> "Array", items |-> items]
JObject(entries) == [j |-> "Object", entries |-> entries]

\* The parser's position after a value, or the failure of the parse.
JOk(j, i) == [ok |-> TRUE, j |-> j, i |-> i]
JErr == [ok |-> FALSE, j |-> JNull, i |-> 0]
OnJson(r, Rest(_)) == IF ~r.ok THEN r ELSE Rest(r)

RECURSIVE skip_ws(_, _)
skip_ws(s, i) == IF i <= Len(s) /\ s[i] \in {" ", "\n", "\t", "\r"} THEN skip_ws(s, i + 1)
                 ELSE i

literal_at(s, i, word) ==
    i + Len(word) - 1 <= Len(s) /\ SubSeq(s, i, i + Len(word) - 1) = word

RECURSIVE digits_end(_, _)
digits_end(s, i) == IF i <= Len(s) /\ s[i] \in DigitSet THEN digits_end(s, i + 1) ELSE i

\* A JSON number of the model: an optional '-' and decimal digits without a leading
\* zero.  The texts of the model carry no fraction and no exponent.  "-0" is the
\* float -0.0, which as_i64 does not give.
number_between(s, start, end, neg) ==
    IF end = start THEN JErr
    ELSE IF s[start] = "0" /\ end > start + 1 THEN JErr
    ELSE IF neg /\ DigitsToNat(SubSeq(s, start, end - 1), 0) = 0
    THEN JOk(JNumber(0, FALSE), end)
    ELSE JOk(JNumber((IF neg THEN -1 ELSE 1) * DigitsToNat(SubSeq(s, start, end - 1), 0),
                     TRUE), end)

parse_number(s, i) ==
    IF s[i] = "-" THEN number_between(s, i + 1, digits_end(s, i + 1), TRUE)
    ELSE number_between(s, i, digits_end(s, i), FALSE)

Unescape == ("\"" :> "\"") @@ ("\\" :> "\\") @@ ("/" :> "/") @@ ("n" :> "\n")
            @@ ("r" :> "\r") @@ ("t" :> "\t")

\* The characters of a JSON string from position i up to its closing quote.
RECURSIVE string_from(_, _, _)
string_from(s, i, out) ==
    IF i > Len(s) THEN JErr
    ELSE IF s[i] = "\"" THEN JOk(JString(out), i + 1)
    ELSE IF s[i] \in {"\n", "\r", "\t"} THEN JErr
    ELSE IF s[i] = "\\"
    THEN IF i + 1 <= Len(s) /\ s[i + 1] \in DOMAIN Unescape
         THEN string_from(s, i + 2, Append(out, Unescape[s[i + 1]]))
         ELSE JErr
    ELSE string_from(s, i + 1, Append(out, s[i]))

RECURSIVE parse_value(_, _), array_items(_, _, _), array_next(_, _, _),
          object_entries(_, _, _), object_value(_, _, _, _), object_next(_, _, _)
\* After an item of an array: ',' and the next item, or ']'.
array_next(s, i, items) ==
    IF i > Len(s) THEN JErr
    ELSE IF s[i] = "," THEN array_items(s, skip_ws(s, i + 1), items)
    ELSE IF s[i] = "]" THEN JOk(JArray(items), i + 1)
    ELSE JErr

array_items(s, i, items) ==
    OnJson(parse_value(s, i), LAMBDA r : array_next(s, skip_ws(s, r.i), Append(items, r.j)))

\* After an entry of an object: ',' and the next entry, or '}'.
object_next(s, i, entries) ==
    IF i > Len(s) THEN JErr
    ELSE IF s[i] = "," THEN object_entries(s, skip_ws(s, i + 1), entries)
    ELSE IF s[i] = "}" THEN JOk(JObject(entries), i + 1)
    ELSE JErr

object_value(s, i, key, entries) ==
    IF i > Len(s) \/ s[i] # ":" THEN JErr
    ELSE OnJson(parse_value(s, skip_ws(s, i + 1)), LAMBDA r :
            object_next(s, skip_ws(s, r.i), Append(entries, <<key, r.j>>)))

object_entries(s, i, entries) ==
    IF i > Len(s) \/ s[i] # "\"" THEN JErr
    ELSE OnJson(string_from(s, i + 1, <<>>), LAMBDA key :
            object_value(s, skip_ws(s, key.i), key.j.s, entries))

parse_value(s, i) ==
    IF i > Len(s) THEN JErr
    ELSE CASE s[i] = "n" -> IF literal_at(s, i, <<"n", "u", "l", "l">>)
                            THEN JOk(JNull, i + 4) ELSE JErr
           [] s[i] = "t" -> IF literal_at(s, i, <<"t", "r", "u", "e">>)
                            THEN JOk(JBool(TRUE), i + 4) ELSE JErr
           [] s[i] = "f" -> IF literal_at(s, i, <<"f", "a", "l", "s", "e">>)
                            THEN JOk(JBool(FALSE), i + 5) ELSE JErr
           [] s[i] = "\"" -> string_from(s, i + 1, <<>>)
           [] s[i] = "[" -> IF skip_ws(s, i + 1) <= Len(s) /\ s[skip_ws(s, i + 1)] = "]"
                            THEN JOk(JArray(<<>>), skip_ws(s, i + 1) + 1)
                            ELSE array_items(s, skip_ws(s, i + 1), <<>>)
           [] s[i] = "{" -> IF skip_ws(s, i + 1) <= Len(s) /\ s[skip_ws(s, i + 1)] = "}"
                            THEN JOk(JObject(<<>>), skip_ws(s, i + 1) + 1)
                            ELSE object_entries(s, skip_ws(s, i + 1), <<>>)
           [] s[i] = "-" \/ s[i] \in DigitSet -> parse_number(s, i)
           [] OTHER -> JErr

\* serde_json::from_str: one value, with nothing but whitespace around it.
after_value(s, r) == IF skip_ws(s, r.i) > Len(s) THEN r ELSE JErr
from_str(s) == OnJson(parse_value(s, skip_ws(s, 1)), LAMBDA r : after_value(s, r))

RECURSIVE to_php(_, _), PushItems(_, _, _, _), InsertEntries(_, _, _, _)
\* for item in arr { a.push(to_php(item, assoc)); }
PushItems(items, i, a, assoc) ==
    IF i > Len(items) THEN a
    ELSE PushItems(items, i + 1, push(a, to_php(items[i], assoc)), assoc)

\* for (k, val) in map.iter() { if assoc { a.insert_string(k.clone(), ...); } }
InsertEntries(entries, i, a, assoc) ==
    IF i > Len(entries) THEN a
    ELSE InsertEntries(entries, i + 1,
                       IF assoc THEN insert_string(a, entries[i][1], to_php(entries[i][2], assoc))
                       ELSE a,
                       assoc)

to_php(v, assoc) ==
    CASE v.j = "Null" -> VNull
      [] v.j = "Bool" -> VBool(v.b)
      [] v.j = "Number" -> IF v.int THEN VInt(v.n) ELSE VFloat(v.n)
      [] v.j = "String" -> VStr(v.s)
      [] v.j = "Array" -> VArr(PushItems(v.items, 1, PhpArrayNew, assoc))
      [] OTHER -> VArr(InsertEntries(v.entries, 1, PhpArrayNew, assoc))

\* match serde_json::from_str(&json_str) { Ok(v) => to_php(&v, assoc), Err(_) => Null }
decode(json_str, assoc) ==
    IF from_str(json_str).ok THEN to_php(from_str(json_str).j, assoc) ELSE VNull

\* What Stmt::Block does with a child's signal: go on to the next child, or stop.
block_stops(sig) == sig # "None"

\* What each loop does with the signal of its body.
while_signal(sig) ==
    CASE sig = "Break" -> "exit" [] sig = "Return" -> "return" [] OTHER -> "next"
\* A For that ends on Continue as it does on Break.
for_signal_continue_exits(sig) ==
    CASE sig \in {"Break", "Continue"} -> "exit" [] sig = "Return" -> "return"
      [] OTHER -> "increment"

for_signal(sig) ==
    CASE sig = "Break" -> "exit" [] sig = "Return" -> "return" [] OTHER -> "increment"
foreach_signal(sig) ==
    CASE sig = "Break" -> "exit" [] sig = "Return" -> "return" [] OTHER -> "next"

\* What a statement of a matched case (or of the default block) does with its signal.
switch_signal(sig) ==
    CASE sig = "None" -> "next" [] sig = "Break" -> "exit"
      [] sig = "Continue" -> "continue" [] OTHER -> "return"

\* A static declaration that stores its initial value on every call.
static_entry_always(entry, name, init_eval) ==
    MapPut(entry, name, IF init_eval = None THEN VNull ELSE init_eval[1])

\* static_storage's slot of the function after `static $name = init` has looked it up.
static_entry(entry, name, init_eval) ==
    IF name \in DOMAIN entry THEN entry
    ELSE MapPut(entry, name, IF init_eval = None THEN VNull ELSE init_eval[1])

\* The value of a call: that of the Return that ended the body, else Null.
\* format!("__closure_{}", self.context.functions.len())
closure_id(e) ==
    <<"_", "_", "c", "l", "o", "s", "u", "r", "e", "_">>
        \o NatToStr(Cardinality(DOMAIN e.functions))

\* An arity check that lets a call with surplus arguments pass.
arity_at_least(params, args) == Len(args) >= Len(params)

\* args.len() != func.params.len() is an error.
arity_matches(params, args) == Len(args) = Len(params)

\* printf: 'd' => val.to_int().to_string(), 'f' => format!("{}", val.to_float()),
\* 's' => val.to_string()
printf_formatted(spec, val) ==
    CASE spec = "d" -> IntToStr(to_int(val))
      [] spec = "f" -> to_string(to_float(val))
      [] OTHER -> to_string(val)

call_result(sig, rv) == IF sig = "Return" /\ rv # None THEN rv[1] ELSE VNull

\* A call that leaves the variables of the body in place.
restore_variables_kept(saved_vars, callee_vars) == callee_vars

\* self.context.variables = saved_vars
restore_variables(saved_vars, callee_vars) == saved_vars

\* "Persist static vars back": pop the frame and copy its statics into static_storage.
persist_statics(e) ==
    IF e.static_var_stack = <<>> THEN e
    ELSE LET top == e.static_var_stack[Len(e.static_var_stack)]
             popped == [e EXCEPT !.static_var_stack = SubSeq(@, 1, Len(@) - 1)]
         IN IF top.fn \notin DOMAIN e.static_storage THEN popped
            ELSE LET store == e.static_storage[top.fn]
                     written == {var \in Range(top.list) : var \in DOMAIN e.variables}
                 IN [popped EXCEPT !.static_storage[top.fn] =
                        [var \in DOMAIN store \cup written |->
                            IF var \in written THEN e.variables[var] ELSE store[var]]]

\* The ? operator: an Err is returned at once, with the engine as it is by then; an Ok
\* value goes on into the rest of the function.  OnExpr is ? on an expression's result
\* inside evaluate_expr, OnValue inside exec, OnSignal on a statement's result.
OnExpr(r, Rest(_)) == IF ~r.ok THEN r ELSE Rest(r)
OnValue(r, Rest(_)) == IF ~r.ok THEN SigErr(r.e, r.err) ELSE Rest(r)
OnSignal(r, Rest(_)) == IF ~r.ok THEN r ELSE Rest(r)
OnBody(r, Rest(_)) == IF ~r.ok THEN EvErr(r.e, r.err) ELSE Rest(r)

RECURSIVE evaluate_expr(_, _), exec(_, _), call_function(_, _, _), ExecBlock(_, _, _),
          WhileLoop(_, _, _), ForLoop(_, _, _), ForeachLoop(_, _, _, _, _),
          SwitchCases(_, _, _, _), SwitchStmts(_, _, _), BindParams(_, _, _, _),
          ArrayElements(_, _, _, _), dynamic_call(_, _, _),
          PrintfFrom(_, _, _, _, _, _)

insert_keyed(a, key_val, value) ==
    CASE key_val.t = "Int" -> insert_int(a, key_val.n, value)
      [] key_val.t = "String" -> insert_string(a, key_val.s, value)
      [] OTHER -> insert_string(a, to_string(key_val), value)

\* Expr::Array: the element values and keys are evaluated in order into a new PhpArray.
ArrayElements(elements, i, a, e) ==
    IF i > Len(elements) THEN EvOk(e, VArr(a))
    ELSE OnExpr(evaluate_expr(elements[i].value, e), LAMBDA value :
            IF elements[i].key = None
            THEN ArrayElements(elements, i + 1, push(a, value.v), value.e)
            ELSE OnExpr(evaluate_expr(elements[i].key[1], value.e), LAMBDA key_val :
                    ArrayElements(elements, i + 1, insert_keyed(a, key_val.v, value.v),
                                  key_val.e)))

array_access(array_val, index_val) ==
    IF array_val.t # "Array" THEN VNull
    ELSE LET result ==
                CASE index_val.t = "Int" -> get_int(array_val.a, index_val.n)
                  [] index_val.t = "String" -> get_string(array_val.a, index_val.s)
                  [] OTHER -> IF get_int(array_val.a, to_int(index_val)) # None
                              THEN get_int(array_val.a, to_int(index_val))
                              ELSE get_string(array_val.a, to_string(index_val))
         IN IF result = None THEN VNull ELSE result[1]

evaluate_expr(expr, e) ==
    CASE expr.k = "Variable" ->
            EvOk(e, unwrap_or(get_variable(e, expr.name), VNull))
      [] expr.k = "Constant" ->
            IF get_constant(e, expr.name) = None THEN EvErr(e, "Undefined constant")
            ELSE EvOk(e, get_constant(e, expr.name)[1])
      [] expr.k = "Number" -> EvOk(e, VFloat(expr.n))
      [] expr.k = "String" -> EvOk(e, VStr(interpolate_string(e, expr.s)))
      [] expr.k = "Bool" -> EvOk(e, VBool(expr.b))
      [] expr.k = "Null" -> EvOk(e, VNull)
      [] expr.k = "Binary" ->
            OnExpr(evaluate_expr(expr.left, e), LAMBDA left_val :
                OnExpr(evaluate_expr(expr.right, left_val.e), LAMBDA right_val :
                    binary_op(expr.op, left_val.v, right_val.v, right_val.e)))
      [] expr.k = "FunctionCall" -> call_function(expr.name, expr.args, e)
      [] expr.k = "ArrowFunction" ->
            EvOk([e EXCEPT !.functions =
                      MapPut(@, JoinChars(closure_id(e)),
                             Function(expr.params, Return(Some(expr.body))))],
                 VStr(closure_id(e)))
      [] expr.k = "DynamicCall" ->
            OnExpr(evaluate_expr(expr.target, e), LAMBDA target_val :
                dynamic_call(target_val.v, expr.args, target_val.e))
      [] expr.k = "Unary" -> unary_op(expr.op, expr.operand, e)
      [] expr.k = "Array" -> ArrayElements(expr.elements, 1, PhpArrayNew, e)
      [] expr.k = "ArrayAccess" ->
            OnExpr(evaluate_expr(expr.array, e), LAMBDA array_val :
                OnExpr(evaluate_expr(expr.index, array_val.e), LAMBDA index_val :
                    EvOk(index_val.e, array_access(array_val.v, index_val.v))))
      [] expr.k = "NullCoalesce" ->
            OnExpr(evaluate_expr(expr.left, e), LAMBDA left_val :
                IF is_null(left_val.v) THEN evaluate_expr(expr.right, left_val.e)
                ELSE left_val)
      [] expr.k = "Ternary" ->
            OnExpr(evaluate_expr(expr.condition, e), LAMBDA cond_val :
                IF is_truthy(cond_val.v)
                THEN (IF expr.then_expr = None THEN cond_val
                      ELSE evaluate_expr(expr.then_expr[1], cond_val.e))
                ELSE evaluate_expr(expr.else_expr, cond_val.e))
      [] OTHER -> EvErr(e, "expression outside the model")

\* printf from the i-th character of the format on: `out` is the text so far and
\* args[arg_index] the next argument.
PrintfFrom(chars, i, args, arg_index, out, e) ==
    IF i > Len(chars) \/ (chars[i] = "%" /\ i + 1 > Len(chars))
    THEN EvOk(write_output(e, out), VInt(Len(out)))
    ELSE IF chars[i] # "%"
    THEN PrintfFrom(chars, i + 1, args, arg_index, out \o <<chars[i]>>, e)
    ELSE IF chars[i + 1] = "%"
    THEN PrintfFrom(chars, i + 2, args, arg_index, out \o <<"%">>, e)
    ELSE IF chars[i + 1] \notin {"s", "d", "f"}
    THEN PrintfFrom(chars, i + 2, args, arg_index, out \o <<"%", chars[i + 1]>>, e)
    ELSE IF arg_index > Len(args)
    THEN PrintfFrom(chars, i + 2, args, arg_index, out, e)
    ELSE OnExpr(evaluate_expr(args[arg_index], e), LAMBDA val :
            PrintfFrom(chars, i + 2, args, arg_index + 1,
                       out \o printf_formatted(chars[i + 1], val.v), val.e))

\* Expr::DynamicCall once its target has the value target_val.
dynamic_call(target_val, args, e) ==
    IF target_val.t # "String" THEN EvErr(e, "Attempted to call non-closure value")
    ELSE IF JoinChars(target_val.s) \notin DOMAIN e.functions
    THEN EvErr(e, "Undefined closure id")
    ELSE IF ~arity_matches(e.functions[JoinChars(target_val.s)].params, args)
    THEN EvErr(e, "Closure expects a different number of args")
    ELSE OnExpr(BindParams(e.functions[JoinChars(target_val.s)].params, args, 1, e),
            LAMBDA bound :
                OnBody(exec(e.functions[JoinChars(target_val.s)].body, bound.e),
                    LAMBDA body :
                        EvOk([body.e EXCEPT !.variables =
                                  restore_variables(e.variables, body.e.variables)],
                             call_result(body.sig, body.rv))))

\* "Bind parameters": each argument is evaluated and bound in turn.
BindParams(params, args, i, e) ==
    IF i > Len(params) THEN EvOk(e, VNull)
    ELSE OnExpr(evaluate_expr(args[i], e), LAMBDA val :
            BindParams(params, args, i + 1, set_variable(val.e, params[i], val.v)))

\* The frame of a call of the user-defined function `name`.
enter_function(e, name) ==
    [e EXCEPT !.current_function = Some(name),
              !.static_var_stack = Append(@, [fn |-> name, list |-> <<>>])]

\* The end of a call whose body has run: statics written back, caller's state restored.
leave_function(persisted, saved_vars, prev_function) ==
    [persisted EXCEPT !.current_function = prev_function,
                      !.variables = restore_variables(saved_vars, persisted.variables)]

call_function(name, args, e) ==
    CASE name = "ob_start" ->
            EvOk([e EXCEPT !.output_buffers = Append(@, <<>>)], VBool(TRUE))
      [] name = "ob_get_clean" ->
            IF e.output_buffers = <<>> THEN EvOk(e, VBool(FALSE))
            ELSE EvOk([e EXCEPT !.output_buffers = SubSeq(@, 1, Len(@) - 1)],
                      VStr(e.output_buffers[Len(e.output_buffers)]))
      [] name = "printf" ->
            IF args = <<>> THEN EvOk(e, VInt(0))
            ELSE OnExpr(evaluate_expr(args[1], e), LAMBDA fmt :
                    PrintfFrom(to_string(fmt.v), 1, args, 2, <<>>, fmt.e))
      [] name = "json_encode" ->
            IF args = <<>> THEN EvErr(e, "json_encode() expects at least 1 argument")
            ELSE OnExpr(evaluate_expr(args[1], e), LAMBDA value :
                    IF Len(args) >= 2
                    THEN OnExpr(evaluate_expr(args[2], value.e), LAMBDA flags :
                            EvOk(flags.e, VStr(encode(value.v,
                                                      BitAnd(json_flags(flags.v), 1) # 0,
                                                      BitAnd(json_flags(flags.v), 2) # 0))))
                    ELSE EvOk(value.e, VStr(encode(value.v, FALSE, FALSE))))
      [] name = "json_decode" ->
            IF args = <<>> THEN EvErr(e, "json_decode() expects at least 1 argument")
            ELSE OnExpr(evaluate_expr(args[1], e), LAMBDA json_val :
                    IF Len(args) >= 2
                    THEN OnExpr(evaluate_expr(args[2], json_val.e), LAMBDA assoc :
                            EvOk(assoc.e, decode(to_string(json_val.v), json_assoc(assoc.v))))
                    ELSE EvOk(json_val.e, decode(to_string(json_val.v), TRUE)))
      [] name \in Builtins \ {"ob_start", "ob_get_clean", "printf", "json_encode",
                              "json_decode"} ->
            EvErr(e, "built-in outside the model")
      [] OTHER ->
            IF name \notin DOMAIN e.functions THEN EvErr(e, "Unknown function")
            ELSE IF ~arity_matches(e.functions[name].params, args)
            THEN EvErr(e, "Function expects a different number of arguments")
            ELSE OnExpr(BindParams(e.functions[name].params, args, 1, enter_function(e, name)),
                    LAMBDA bound :
                        OnBody(exec(e.functions[name].body, bound.e), LAMBDA body :
                            EvOk(leave_function(persist_statics(body.e), e.variables,
                                                e.current_function),
                                 call_result(body.sig, body.rv))))

ExecBlock(statements, i, e) ==
    IF i > Len(statements) THEN SigOk(e, "None", None)
    ELSE OnSignal(exec(statements[i], e), LAMBDA r :
            IF block_stops(r.sig) THEN r ELSE ExecBlock(statements, i + 1, r.e))

WhileLoop(stmt, e, fuel) ==
    IF fuel = 0 THEN SigErr(e, CutOff)
    ELSE OnValue(evaluate_expr(stmt.condition, e), LAMBDA cond_val :
            IF ~is_truthy(cond_val.v) THEN SigOk(cond_val.e, "None", None)
            ELSE OnSignal(exec(stmt.body, cond_val.e), LAMBDA body :
                    CASE while_signal(body.sig) = "exit" -> SigOk(body.e, "None", None)
                      [] while_signal(body.sig) = "return" -> body
                      [] OTHER -> WhileLoop(stmt, body.e, fuel - 1)))

\* The condition of a For: absent means true.
for_condition(condition, e) ==
    IF condition = None THEN EvOk(e, VBool(TRUE)) ELSE evaluate_expr(condition[1], e)

for_increment(increment, e) ==
    IF increment = None THEN EvOk(e, VNull) ELSE evaluate_expr(increment[1], e)

ForLoop(stmt, e, fuel) ==
    IF fuel = 0 THEN SigErr(e, CutOff)
    ELSE OnValue(for_condition(stmt.condition, e), LAMBDA cond_val :
            IF ~is_truthy(cond_val.v) THEN SigOk(cond_val.e, "None", None)
            ELSE OnSignal(exec(stmt.body, cond_val.e), LAMBDA body :
                    CASE for_signal(body.sig) = "exit" -> SigOk(body.e, "None", None)
                      [] for_signal(body.sig) = "return" -> body
                      [] OTHER -> OnValue(for_increment(stmt.increment, body.e), LAMBDA inc :
                                    ForLoop(stmt, inc.e, fuel - 1))))

foreach_bind(stmt, a, key, e) ==
    set_variable(IF stmt.key_var = None THEN e
                 ELSE set_variable(e, stmt.key_var[1],
                                   IF key.kt = "Int" THEN VInt(key.i) ELSE VStr(key.s)),
                 stmt.value_var, a.data[key])

ForeachLoop(stmt, a, keys, i, e) ==
    IF i > Len(keys) THEN SigOk(e, "None", None)
    ELSE OnSignal(exec(stmt.body, foreach_bind(stmt, a, keys[i], e)), LAMBDA body :
            CASE foreach_signal(body.sig) = "exit" -> SigOk(body.e, "None", None)
              [] foreach_signal(body.sig) = "return" -> body
              [] OTHER -> ForeachLoop(stmt, a, keys, i + 1, body.e))

\* The statements of the matched case, or of the default block.
SwitchStmts(statements, j, e) ==
    IF j > Len(statements) THEN SigOk(e, "None", None)
    ELSE IF statements[j].k = "Break" THEN SigOk(e, "None", None)
    ELSE OnSignal(exec(statements[j], e), LAMBDA r :
            CASE switch_signal(r.sig) = "next" -> SwitchStmts(statements, j + 1, r.e)
              [] switch_signal(r.sig) = "exit" -> SigOk(r.e, "None", None)
              [] switch_signal(r.sig) = "continue" -> SigOk(r.e, "Continue", None)
              [] OTHER -> r)

\* The cases in order; the first whose value equals the discriminant runs and ends the
\* switch (if matched { break; }); with no match the default block runs.
SwitchCases(stmt, discr, i, e) ==
    IF i > Len(stmt.cases)
    THEN (IF stmt.default = None THEN SigOk(e, "None", None)
          ELSE SwitchStmts(stmt.default[1], 1, e))
    ELSE OnValue(evaluate_expr(stmt.cases[i].value, e), LAMBDA case_val :
            IF php_equals(discr, case_val.v)
            THEN SwitchStmts(stmt.cases[i].statements, 1, case_val.e)
            ELSE SwitchCases(stmt, discr, i + 1, case_val.e))

\* static_var_stack with `name` recorded in the frame of current_fn_name, if that is on top.
static_record(stack, current_fn_name, name) ==
    IF stack # <<>> /\ stack[Len(stack)].fn = current_fn_name
       /\ name \notin Range(stack[Len(stack)].list)
    THEN [stack EXCEPT ![Len(stack)].list = Append(@, name)]
    ELSE stack

\* Stmt::StaticVar inside the function current_fn_name, its initial expression evaluated.
static_var(stmt, current_fn_name, init_eval) ==
    LET e1 == init_eval.e
        entry == static_entry(
                    IF current_fn_name \in DOMAIN e1.static_storage
                    THEN e1.static_storage[current_fn_name] ELSE EmptyMap,
                    stmt.name,
                    IF stmt.initial = None THEN None ELSE Some(init_eval.v))
    IN SigOk([e1 EXCEPT !.static_storage = MapPut(@, current_fn_name, entry),
                        !.variables = MapPut(@, stmt.name, entry[stmt.name]),
                        !.static_var_stack = static_record(@, current_fn_name, stmt.name)],
             "None", None)

\* The expression a statement evaluates before anything else, if it has one.
first_expr(stmt, e) ==
    CASE stmt.k \in {"Expression", "Echo", "Print"} -> Some(stmt.expr)
      [] stmt.k \in {"Assignment", "ConstantDefinition"} -> Some(stmt.value)
      [] stmt.k = "NullCoalesceAssign" ->
            IF is_null(IF stmt.variable \in DOMAIN e.variables
                       THEN e.variables[stmt.variable] ELSE VNull)
            THEN Some(stmt.value) ELSE None
      [] stmt.k = "If" -> Some(stmt.condition)
      [] stmt.k = "Foreach" -> Some(stmt.array)
      [] stmt.k = "Switch" -> Some(stmt.expression)
      [] stmt.k = "Return" -> stmt.expr_opt
      [] stmt.k = "StaticVar" -> IF e.current_function = None THEN None ELSE stmt.initial
      [] OTHER -> None

\* The rest of a statement whose first expression has the value val.v.
exec_value(stmt, val) ==
    CASE stmt.k = "Expression" -> SigOk(val.e, "None", None)
      [] stmt.k \in {"Echo", "Print"} ->
            SigOk(write_output(val.e, to_string(val.v)), "None", None)
      [] stmt.k \in {"Assignment", "NullCoalesceAssign"} ->
            SigOk(set_variable(val.e, stmt.variable, val.v), "None", None)
      [] stmt.k = "ConstantDefinition" ->
            SigOk(set_constant(val.e, stmt.name, val.v), "None", None)
      [] stmt.k = "If" ->
            IF if_is_truthy(val.v) THEN exec(stmt.then_stmt, val.e)
            ELSE IF stmt.else_stmt # None THEN exec(stmt.else_stmt[1], val.e)
            ELSE SigOk(val.e, "None", None)
      [] stmt.k = "Foreach" ->
            IF val.v.t = "Array"
            THEN ForeachLoop(stmt, val.v.a, HashIter(val.v.a.data), 1, val.e)
            ELSE SigErr(val.e, "Cannot iterate over non-array value in foreach")
      [] stmt.k = "Switch" -> SwitchCases(stmt, val.v, 1, val.e)
      [] stmt.k = "Return" -> SigOk(val.e, "Return", Some(val.v))
      [] OTHER -> static_var(stmt, val.e.current_function[1], val)

exec(stmt, e) ==
    IF first_expr(stmt, e) # None
    THEN OnValue(evaluate_expr(first_expr(stmt, e)[1], e), LAMBDA val : exec_value(stmt, val))
    ELSE CASE stmt.k = "NullCoalesceAssign" -> SigOk(e, "None", None)
           [] stmt.k = "Block" -> ExecBlock(stmt.statements, 1, e)
           [] stmt.k = "While" -> WhileLoop(stmt, e, MaxIter)
           [] stmt.k = "For" ->
                 IF stmt.init = None THEN ForLoop(stmt, e, MaxIter)
                 ELSE OnSignal(exec(stmt.init[1], e), LAMBDA init :
                         ForLoop(stmt, init.e, MaxIter))
           [] stmt.k = "Break" -> SigOk(e, "Break", None)
           [] stmt.k = "Continue" -> SigOk(e, "Continue", None)
           [] stmt.k = "Return" -> SigOk(e, "Return", None)
           [] stmt.k = "FunctionDefinition" ->
                 SigOk([e EXCEPT !.functions =
                             MapPut(@, stmt.name, Function(stmt.parameters, stmt.body))],
                       "None", None)
           [] stmt.k = "StaticVar" ->
                 IF e.current_function = None THEN SigOk(e, "None", None)
                 ELSE static_var(stmt, e.current_function[1], EvOk(e, VNull))
           [] OTHER -> SigErr(e, "statement outside the model")

\* Engine::execute_stmt: Ok(()) or Err(msg), with the engine it leaves behind; a Return
\* that reaches the top level writes its value to the output.
top_level(signal) ==
    IF ~signal.ok THEN [e |-> signal.e, ok |-> FALSE, err |-> signal.err]
    ELSE [e |-> IF signal.sig = "Return" /\ signal.rv # None
                THEN write_output(signal.e, to_string(signal.rv[1])) ELSE signal.e,
          ok |-> TRUE, err |-> ""]

execute_stmt(stmt, e) == top_level(exec(stmt, e))

(***************************************************************************)
(* Spec: one Engine, on which function definitions, top-level assignments  *)
(* and calls of user-defined functions are executed in any order.          *)
(***************************************************************************)
Str(s) == String(s)

\* function ret_param($x) { $g = 9; $x = 5; return $x; }
\* function ret_first($x) { if ($x) { return 1; } $g = 3; return 2; }
\* function no_ret($x)    { $g = $x; $y = 1; }
\* function ret_void($x)  { $x = 4; return; }
\* function counter()     { static $n = 0; $n++; return $n; }
FunctionDefs ==
    Block(<<
        FunctionDefinition("ret_param", <<"x">>,
            Block(<<Assignment("g", Number(9)), Assignment("x", Number(5)),
                    Return(Some(Variable("x")))>>)),
        FunctionDefinition("ret_first", <<"x">>,
            Block(<<If(Variable("x"), Block(<<Return(Some(Number(1)))>>), None),
                    Assignment("g", Number(3)), Return(Some(Number(2)))>>)),
        FunctionDefinition("no_ret", <<"x">>,
            Block(<<Assignment("g", Variable("x")), Assignment("y", Number(1))>>)),
        FunctionDefinition("ret_void", <<"x">>,
            Block(<<Assignment("x", Number(4)), Return(None)>>)),
        FunctionDefinition("counter", <<>>,
            Block(<<StaticVar("n", Some(Number(0))),
                    Expression(Unary("PostIncrement", Variable("n"))),
                    Return(Some(Variable("n")))>>))
    >>)

UnaryFunctions == {"ret_param", "ret_first", "no_ret", "ret_void"}

\* The argument expressions of the calls: 0, 3, $g and $g++.
CallArgs == {Number(0), Number(3), Variable("g"), Unary("PostIncrement", Variable("g"))}

\* The top-level assignments: $g = 1; $n = 7; $x = 2;
TopAssignments == {Assignment("g", Number(1)), Assignment("n", Number(7)),
                   Assignment("x", Number(2))}

\* Calls of counter() completed so far, as the observer counts them.
CounterCalls == IF "counter_calls" \in DOMAIN obs THEN obs.counter_calls ELSE 0

IdleVars == <<arr, hist, hasher, pool, reqs>>

Init ==
    /\ engine = EngineNew
    /\ obs = [op |-> "init", counter_calls |-> 0]
    /\ steps = 0
    /\ arr = PhpArrayNew
    /\ hist = [order |-> <<>>, max_int |-> None]
    /\ hasher = <<>>
    /\ pool = <<>>
    /\ reqs = <<>>

\* What an action leaves behind: the engine after the operation and the observer's note.
Ran(r, note) ==
    /\ engine' = r.e
    /\ obs' = note @@ [ok |-> r.ok, before |-> engine, counter_calls |-> CounterCalls]
    /\ steps' = steps + 1
    /\ UNCHANGED IdleVars

RanCall(r, note) ==
    /\ engine' = r.e
    /\ obs' = note @@ [ok |-> r.ok, v |-> r.v, before |-> engine,
                       counter_calls |-> IF r.ok /\ note.op = "counter"
                                         THEN CounterCalls + 1 ELSE CounterCalls]
    /\ steps' = steps + 1
    /\ UNCHANGED IdleVars

Define ==
    /\ steps < MaxSteps
    /\ Ran(execute_stmt(FunctionDefs, engine), [op |-> "define"])

Assign ==
    /\ steps < MaxSteps
    /\ \E stmt \in TopAssignments : Ran(execute_stmt(stmt, engine), [op |-> "assign"])

\* evaluate_expr on f(arg), for a one-parameter function f of FunctionDefs.
CallUnary ==
    /\ steps < MaxSteps
    /\ \E name \in UnaryFunctions, arg \in CallArgs :
          RanCall(evaluate_expr(FunctionCall(name, <<arg>>), engine),
                  [op |-> "call", name |-> name, arg |-> arg])

\* evaluate_expr on counter().
CallCounter ==
    /\ steps < MaxSteps
    /\ RanCall(evaluate_expr(FunctionCall("counter", <<>>), engine), [op |-> "counter"])

Next == Define \/ Assign \/ CallUnary \/ CallCounter

Spec == Init /\ [][Next]_vars

\* The value the argument expression has in the caller's variables.
ArgValue(arg, variables) ==
    CASE arg.k = "Number" -> VFloat(arg.n)
      [] arg.k = "Variable" -> IF arg.name \in DOMAIN variables THEN variables[arg.name]
                               ELSE VNull
      [] OTHER -> IF arg.operand.name \in DOMAIN variables
                  THEN variables[arg.operand.name] ELSE VInt(0)

\* The value of the Return that ends the body of f(arg), Null where the body has none.
ReturnedValue(name, arg, variables) ==
    CASE name = "ret_param" -> VFloat(5)
      [] name = "ret_first" -> IF is_truthy(ArgValue(arg, variables)) THEN VFloat(1)
                               ELSE VFloat(2)
      [] OTHER -> VNull

\* C1: a call of a user-defined function that returns normally leaves the caller's
\* variables exactly as they were before the call, whatever the body assigned, and its
\* value is that of the Return that ended the body, or Null if the body had no Return.
C1_CallFrame ==
    (obs.op = "call" /\ obs.ok) =>
        /\ engine.variables = obs.before.variables
        /\ obs.v = ReturnedValue(obs.name, obs.arg, obs.before.variables)

\* C1 witness: ret_param($g++) returned 5 to a caller that holds $g and $x; the body
\* assigned both.
C1_Witness ==
    /\ obs.op = "call" /\ obs.ok /\ obs.name = "ret_param"
    /\ obs.arg = Unary("PostIncrement", Variable("g"))
    /\ {"g", "x"} \subseteq DOMAIN obs.before.variables
    /\ obs.v = VFloat(5)

\* C2: the k-th completed call of counter() returns k; the call starts from the value
\* the previous call ended with and leaves k in the static slot of counter.
C2_StaticCounter ==
    (obs.op = "counter" /\ obs.ok) =>
        /\ obs.v = VFloat(obs.counter_calls)
        /\ engine.static_storage["counter"]["n"] = VFloat(obs.counter_calls)
        /\ obs.counter_calls > 1 =>
              obs.before.static_storage["counter"]["n"] = VFloat(obs.counter_calls - 1)
        /\ obs.counter_calls = 1 => "counter" \notin DOMAIN obs.before.static_storage

\* C2 witness: the third call of counter() has returned.
C2_Witness == obs.op = "counter" /\ obs.ok /\ obs.counter_calls = 3 /\ obs.v = VFloat(3)

(***************************************************************************)
(* SpecFlow: one Engine runs an optional first statement and then one      *)
(* program of a family of control-flow programs.                           *)
(***************************************************************************)
Echoes(c) == Echo(Str(<<c>>))
Eq(var, n) == Binary(Variable(var), "Equal", Number(n))

\* The orders in which a HashMap may yield the keys 0, 1 and 2.
KeyOrders ==
    {<<KInt(a), KInt(b), KInt(c)>> : a \in 0..2, b \in 0..2, c \in 0..2} \
        {o \in {<<KInt(a), KInt(b), KInt(c)>> : a \in 0..2, b \in 0..2, c \in 0..2} :
            o[1] = o[2] \/ o[1] = o[3] \/ o[2] = o[3]}

\* The first statement: { echo "p"; $i = 7; $r = 1; }
FirstStmt == Block(<<Echoes("p"), Assignment("i", Number(7)), Assignment("r", Number(1))>>)

\* for ($i = 0; $i < n; $i++) { if ($i == c) continue; if ($i == b) break; echo $i; }
ForProgram(c, b, n) ==
    For(Some(Assignment("i", Number(0))),
        Some(Binary(Variable("i"), "LessThan", Number(n))),
        Some(Unary("PostIncrement", Variable("i"))),
        Block(<<If(Eq("i", c), Continue, None), If(Eq("i", b), Break, None),
                Echo(Variable("i"))>>))

\* The statement `stmt` inside one more block, if, loop or switch; the echo after it in
\* the same body must not run once stmt has returned.
Wrappers == {"Block", "If", "Else", "While", "For", "Foreach", "Case", "Default", "ForInit"}

Wrap(w, stmt) ==
    CASE w = "Block" -> Block(<<Echoes("b"), stmt, Echoes("B")>>)
      [] w = "If" -> If(Bool(TRUE), stmt, None)
      [] w = "Else" -> If(Bool(FALSE), Echoes("t"), Some(stmt))
      [] w = "While" -> While(Bool(TRUE), Block(<<stmt, Echoes("w")>>))
      [] w = "For" -> For(Some(Assignment("i", Number(0))),
                          Some(Binary(Variable("i"), "LessThan", Number(2))),
                          Some(Unary("PostIncrement", Variable("i"))),
                          Block(<<stmt, Echoes("f")>>))
      [] w = "Foreach" -> Foreach(Array(<<ArrayElement(None, Number(0)),
                                          ArrayElement(None, Number(1))>>),
                                  "v", None, Block(<<stmt, Echoes("e")>>))
      [] w = "Case" -> Switch(Number(1), <<SwitchCase(Number(1), <<stmt, Echoes("s")>>)>>,
                              None)
      [] w = "Default" -> Switch(Number(1), <<>>, Some(<<stmt, Echoes("d")>>))
      [] OTHER -> For(Some(stmt), Some(Bool(FALSE)), None, Block(<<>>))

RECURSIVE WrapAll(_, _)
WrapAll(ws, stmt) == IF ws = <<>> THEN stmt ELSE Wrap(Head(ws), WrapAll(Tail(ws), stmt))

WrapperLists == {<<w>> : w \in Wrappers} \cup {<<w1, w2>> : w1 \in Wrappers, w2 \in Wrappers}

\* function f() { echo "a"; <return 7; inside the wrappers ws> echo "z"; return 0; }
\* $r = f();
ReturnProgram(ws) ==
    Block(<<FunctionDefinition("f", <<>>,
                Block(<<Echoes("a"), WrapAll(ws, Return(Some(Number(7)))), Echoes("z"),
                        Return(Some(Number(0)))>>)),
            Assignment("r", FunctionCall("f", <<>>))>>)

\* Two loops, one inside the other; the inner one meets `signal` when its variable is 1.
LoopKinds == {"While", "For", "Foreach"}
Placements == {"direct", "block", "case", "default"}

Placed(placement, signal) ==
    CASE placement = "direct" -> If(Eq("j", 1), signal, None)
      [] placement = "block" -> Block(<<If(Eq("j", 1), Block(<<signal>>), None)>>)
      [] placement = "case" ->
            Switch(Number(1),
                   <<SwitchCase(Number(1), <<If(Eq("j", 1), signal, None), Echoes("s")>>)>>,
                   None)
      [] OTHER -> Switch(Number(1), <<>>,
                         Some(<<If(Eq("j", 1), signal, None), Echoes("s")>>))

\* A loop of kind `kind` whose variable var takes the values 0 .. n-1 (a foreach takes
\* them in the order of its array's HashMap).
Loop(kind, var, n, body) ==
    CASE kind = "For" ->
            For(Some(Assignment(var, Number(0))),
                Some(Binary(Variable(var), "LessThan", Number(n))),
                Some(Unary("PostIncrement", Variable(var))), body)
      [] kind = "While" ->
            Block(<<Assignment(var, Number(0 - 1)),
                    While(Binary(Unary("PreIncrement", Variable(var)), "LessThan", Number(n)),
                          body)>>)
      [] OTHER ->
            Foreach(Array([i \in 1..n |-> ArrayElement(None, Number(i - 1))]), var, None, body)

LoopsProgram(outer, inner, signal, placement) ==
    Loop(outer, "i", 2,
         Block(<<Echoes("("),
                 Loop(inner, "j", 3, Block(<<Placed(placement, signal), Echo(Variable("j"))>>)),
                 Echoes(")")>>))

\* The text of a switch body: clauses `case label:` (label 0 is `default:`) with one
\* echo each, ended by `break;` or not.
Clause(label, letter, brk) == [label |-> label, letter |-> letter, brk |-> brk]

ClauseLists ==
    {<<Clause(1, "a", b1), Clause(2, "b", b2), Clause(0, "d", b3)>> :
        b1 \in BOOLEAN, b2 \in BOOLEAN, b3 \in BOOLEAN}
    \cup {<<Clause(1, "a", b1), Clause(2, "b", b2)>> : b1 \in BOOLEAN, b2 \in BOOLEAN}

\* ControlFlowParser::parse_switch: each clause's statements are collected up to its
\* `break;`, which is consumed and not kept.
RECURSIVE ParseClauses(_, _, _, _)
ParseClauses(clauses, i, cases, default_block) ==
    IF i > Len(clauses) THEN [cases |-> cases, default |-> default_block]
    ELSE IF clauses[i].label # 0
    THEN ParseClauses(clauses, i + 1,
                      Append(cases, SwitchCase(Number(clauses[i].label),
                                               <<Echoes(clauses[i].letter)>>)),
                      default_block)
    ELSE ParseClauses(clauses, i + 1, cases, Some(<<Echoes(clauses[i].letter)>>))

parse_switch(expr, clauses) ==
    Switch(expr, ParseClauses(clauses, 1, <<>>, None).cases,
           ParseClauses(clauses, 1, <<>>, None).default)

\* The condition expressions: one for each kind of value, zero and non-zero, empty and
\* non-empty.
Conditions ==
    {Null, Bool(TRUE), Bool(FALSE),
     Binary(Number(0), "BitwiseAnd", Number(0)), Binary(Number(1), "BitwiseOr", Number(0)),
     Number(0), Number(2), Binary(Str(<<"N", "a", "N">>), "Add", Number(0)),
     Str(<<>>), Str(<<"0">>), Str(<<"a">>),
     Array(<<>>), Variable("_GET"), Array(<<ArrayElement(None, Number(1))>>)}

\* $c = cond; if ($c) echo "T"; else echo "F"; echo $c ? "t" : "f";
\* while ($c) { echo "w"; break; }
IfProgram(cond) ==
    Block(<<Assignment("c", cond),
            If(Variable("c"), Echoes("T"), Some(Echoes("F"))),
            Echo(Ternary(Variable("c"), Some(Str(<<"t">>)), Str(<<"f">>))),
            While(Variable("c"), Block(<<Echoes("w"), Break>>))>>)

InitFlow ==
    /\ engine = EngineNew
    /\ obs = [op |-> "init"]
    /\ steps = 0
    /\ arr = PhpArrayNew
    /\ hist = [order |-> <<>>, max_int |-> None]
    /\ hasher \in KeyOrders
    /\ pool = <<>>
    /\ reqs = <<>>

\* A program runs on an engine that has run nothing, or one statement, before it.
Fresh == obs.op \in {"init", "first"}

\* The engine after the statement, and the observer's note of the run.
RanFlow(r, note) ==
    /\ engine' = r.e
    /\ obs' = note @@ [ok |-> r.ok, before |-> engine]
    /\ steps' = steps + 1
    /\ UNCHANGED <<arr, hist, hasher, pool, reqs>>

RunFirst ==
    /\ obs.op = "init"
    /\ RanFlow(execute_stmt(FirstStmt, engine), [op |-> "first"])

RunFor ==
    /\ Fresh
    /\ \E c \in 0..MaxN, b \in 0..MaxN, n \in {MaxN - 2, MaxN} :
          RanFlow(execute_stmt(ForProgram(c, b, n), engine),
                  [op |-> "for", c |-> c, b |-> b, n |-> n])

RunReturn ==
    /\ Fresh
    /\ \E ws \in WrapperLists :
          RanFlow(execute_stmt(ReturnProgram(ws), engine), [op |-> "return", ws |-> ws])

RunLoops ==
    /\ Fresh
    /\ \E outer \in LoopKinds, inner \in LoopKinds, signal \in {Break, Continue},
          placement \in Placements :
          RanFlow(execute_stmt(LoopsProgram(outer, inner, signal, placement), engine),
                  [op |-> "loops", outer |-> outer, inner |-> inner, signal |-> signal.k,
                   placement |-> placement])

RunSwitch ==
    /\ Fresh
    /\ \E discr \in 1..3, clauses \in ClauseLists :
          RanFlow(execute_stmt(parse_switch(Number(discr), clauses), engine),
                  [op |-> "switch", discr |-> discr, clauses |-> clauses])

RunIf ==
    /\ Fresh
    /\ \E cond \in Conditions :
          RanFlow(execute_stmt(IfProgram(cond), engine), [op |-> "if", cond |-> cond])

NextFlow == RunFirst \/ RunFor \/ RunReturn \/ RunLoops \/ RunSwitch \/ RunIf

SpecFlow == InitFlow /\ [][NextFlow]_vars

\* What the run has written.
Written == SubSeq(engine.output, Len(obs.before.output) + 1, Len(engine.output))

\* The digits echoed by the for loop of ForProgram from $i = i on, and the value $i is
\* left with: a continue goes on to $i + 1, a break stops at $i.
RECURSIVE ForOutput(_, _, _, _)
ForOutput(i, c, b, n) ==
    IF i >= n THEN <<>>
    ELSE IF i = c THEN ForOutput(i + 1, c, b, n)
    ELSE IF i = b THEN <<>>
    ELSE NatToStr(i) \o ForOutput(i + 1, c, b, n)

RECURSIVE ForLast(_, _, _, _)
ForLast(i, c, b, n) ==
    IF i >= n THEN i
    ELSE IF i = c THEN ForLast(i + 1, c, b, n)
    ELSE IF i = b THEN i
    ELSE ForLast(i + 1, c, b, n)

\* C3: in a For loop a Continue skips the rest of the body and the increment still
\* runs; a Break ends the loop at once, without the increment; so the loop of
\* ForProgram echoes the values below n up to the break, without the continue's one.
C3_ForContinueBreak ==
    obs.op = "for" =>
        /\ obs.ok
        /\ obs.before.output \o ForOutput(0, obs.c, obs.b, obs.n) = engine.output
        /\ engine.variables["i"] = VFloat(ForLast(0, obs.c, obs.b, obs.n))

\* C3 witness: the loop with continue at 2, break at 4 and bound 5 has written 013 after
\* the output of an earlier statement and has left $i at 4.
C3_Witness ==
    /\ obs.op = "for" /\ obs.ok /\ obs.c = 2 /\ obs.b = 4 /\ obs.n = 5
    /\ obs.before.output = <<"p">>
    /\ engine.output = <<"p", "0", "1", "3">>
    /\ engine.variables["i"] = VFloat(4)

\* What the wrappers echo before the statement inside them is reached.
RECURSIVE BlockEchoes(_)
BlockEchoes(ws) ==
    IF ws = <<>> THEN <<>>
    ELSE (IF Head(ws) = "Block" THEN <<"b">> ELSE <<>>) \o BlockEchoes(Tail(ws))

\* The values the inner loop's variable takes, in order.
InnerValues(kind) == IF kind = "Foreach" THEN [i \in 1..3 |-> hasher[i].i] ELSE <<0, 1, 2>>

\* What the inner loop writes if the signal acts on the nearest loop (a break inside a
\* switch: on that switch) and on nothing else.
RECURSIVE InnerOutput(_, _, _)
InnerOutput(vals, signal, placement) ==
    IF vals = <<>> THEN <<>>
    ELSE IF Head(vals) # 1
    THEN (IF placement \in {"case", "default"} THEN <<"s">> ELSE <<>>)
         \o NatToStr(Head(vals)) \o InnerOutput(Tail(vals), signal, placement)
    ELSE IF signal = "Continue" THEN InnerOutput(Tail(vals), signal, placement)
    ELSE IF placement \in {"case", "default"}
    THEN <<"1">> \o InnerOutput(Tail(vals), signal, placement)
    ELSE <<>>

LoopsOutput(inner, signal, placement) ==
    <<"(">> \o InnerOutput(InnerValues(inner), signal, placement) \o <<")">>
    \o <<"(">> \o InnerOutput(InnerValues(inner), signal, placement) \o <<")">>

\* A return in a body nested in blocks, ifs, loops and switches lets no later statement of
\* that body run, and its value is the value of the call.
ReturnEndsBody ==
    obs.op = "return" =>
        /\ obs.ok
        /\ Written = <<"a">> \o BlockEchoes(obs.ws)
        /\ engine.variables["r"] = VFloat(7)

\* A break or continue acts on the nearest enclosing loop (a break: or switch) only.
NearestLoopOnly ==
    obs.op = "loops" =>
        /\ obs.ok
        /\ Written = LoopsOutput(obs.inner, obs.signal, obs.placement)

\* C4: a Block stops at its first child with a signal other than None; a Return at any
\* depth of blocks, ifs, loops and switches in a function body ends all enclosing loops,
\* lets no later statement of the body run and gives the call its value; a Break or
\* Continue acts on the nearest enclosing loop (Break: or switch) only.
C4_Signals == ReturnEndsBody /\ NearestLoopOnly

\* The return is anywhere but in the first clause of a for.
ReturnOutsideForInit ==
    (obs.op = "return" /\ \A i \in 1..Len(obs.ws) : obs.ws[i] # "ForInit") =>
        /\ obs.ok
        /\ Written = <<"a">> \o BlockEchoes(obs.ws)
        /\ engine.variables["r"] = VFloat(7)

\* The clause a switch on discr enters: the first case with that label, else default.
Entered(clauses, discr) ==
    IF \E i \in 1..Len(clauses) : clauses[i].label = discr
    THEN CHOOSE i \in 1..Len(clauses) :
            /\ clauses[i].label = discr
            /\ \A j \in 1..(i - 1) : clauses[j].label # discr
    ELSE IF \E i \in 1..Len(clauses) : clauses[i].label = 0
    THEN CHOOSE i \in 1..Len(clauses) : clauses[i].label = 0
    ELSE Len(clauses) + 1

\* What is echoed from clause i on, falling through until a break or the end.
RECURSIVE FallFrom(_, _)
FallFrom(clauses, i) ==
    IF i > Len(clauses) THEN <<>>
    ELSE <<clauses[i].letter>> \o (IF clauses[i].brk THEN <<>> ELSE FallFrom(clauses, i + 1))

\* C5: a matched case whose statements end without a break falls through into the
\* following cases and the default block, until a break or the end of the switch.
C5_FallThrough ==
    obs.op = "switch" =>
        /\ obs.ok
        /\ Written = FallFrom(obs.clauses, Entered(obs.clauses, obs.discr))

\* C10: an If takes its then-branch exactly when is_truthy holds of the condition's
\* value, as the Ternary and the While on the same value do.
C10_IfTruthy ==
    obs.op = "if" =>
        /\ obs.ok
        /\ Head(Written) = (IF is_truthy(engine.variables["c"]) THEN "T" ELSE "F")
        /\ Written[2] = (IF is_truthy(engine.variables["c"]) THEN "t" ELSE "f")
        /\ Len(Written) = (IF is_truthy(engine.variables["c"]) THEN 3 ELSE 2)

\* Ternary and While decide by is_truthy.
TernaryWhileTruthy ==
    obs.op = "if" =>
        /\ obs.ok
        /\ Written[2] = (IF is_truthy(engine.variables["c"]) THEN "t" ELSE "f")
        /\ Len(Written) = (IF is_truthy(engine.variables["c"]) THEN 3 ELSE 2)

(***************************************************************************)
(* SpecArray: one PhpArray, on which insert_int, insert_string and push    *)
(* are called in any order, and which is iterated.                         *)
(***************************************************************************)
IntKeys == {0, 1, I64Max}
StrKeys == {"a", "b"}
Inserted == VBool(TRUE)

\* The sequences in which the keys of `data` can be yielded: each key once.
Orders(data) ==
    {order \in [1..Cardinality(DOMAIN data) -> DOMAIN data] :
        \A i \in DOMAIN order, j \in DOMAIN order : i # j => order[i] # order[j]}

\* The history after an operation has stored under `key`: the keys in the order of their
\* first insertion, and the largest integer key so far.
Noted(key) ==
    [order |-> IF key \in Range(hist.order) THEN hist.order ELSE Append(hist.order, key),
     max_int |-> IF key.kt # "Int" THEN hist.max_int
                 ELSE IF hist.max_int = None \/ key.i > hist.max_int[1] THEN Some(key.i)
                 ELSE hist.max_int]

InitArray ==
    /\ arr = PhpArrayNew
    /\ hist = [order |-> <<>>, max_int |-> None]
    /\ hasher = <<>>
    /\ obs = [op |-> "new"]
    /\ steps = 0
    /\ engine = EngineNew
    /\ pool = <<>>
    /\ reqs = <<>>

\* An operation that has stored under `key`; the table may have moved its entries.
Stored(a, key) ==
    /\ arr' = a
    /\ hist' = Noted(key)
    /\ hasher' = <<>>
    /\ steps' = steps + 1
    /\ UNCHANGED <<engine, pool, reqs>>

Running == steps < MaxOps /\ obs.op # "panic"

InsertInt ==
    /\ Running
    /\ \E key \in IntKeys :
          /\ Stored(insert_int(arr, key, Inserted), KInt(key))
          /\ obs' = [op |-> "insert_int", key |-> KInt(key), before |-> arr]

InsertString ==
    /\ Running
    /\ \E key \in StrKeys :
          /\ Stored(insert_string(arr, key, Inserted), KStr(key))
          /\ obs' = [op |-> "insert_string", key |-> KStr(key), before |-> arr]

Push ==
    /\ Running
    /\ Stored(push(arr, Inserted), KInt(arr.next_index))
    /\ obs' = [op |-> "push", key |-> KInt(arr.next_index), before |-> arr]

\* insert_int or push in a build with overflow checks, where key + 1 overflows.
Panic ==
    /\ Running
    /\ \E key \in IntKeys \cup {arr.next_index} :
          /\ insert_int_panics(arr, key)
          /\ obs' = [op |-> "panic", key |-> KInt(key), before |-> arr]
    /\ UNCHANGED <<arr, hist, hasher, steps, engine, pool, reqs>>

\* for (array_key, value) in &arr.data: the HashMap yields its keys in an order of its
\* own, the same one as long as nothing is stored.
Iterate ==
    /\ obs.op # "panic"
    /\ Cardinality(DOMAIN arr.data) < MaxOps
    /\ \E order \in Orders(arr.data) :
          /\ hasher = <<>> \/ hasher = order
          /\ hasher' = order
          /\ obs' = [op |-> "iterate", order |-> order]
    /\ UNCHANGED <<arr, hist, steps, engine, pool, reqs>>

NextArray == InsertInt \/ InsertString \/ Push \/ Panic \/ Iterate

SpecArray == InitArray /\ [][NextArray]_vars

\* C6: iterating a PhpArray yields its entries in the order in which their keys were
\* first inserted; after b, 0, a, 1 it yields b, 0, a, 1.
C6_InsertionOrder == obs.op = "iterate" => obs.order = hist.order

\* C7: next_index is at least 1 + the largest integer key ever inserted, a push stores
\* under a key that held no entry, and after b, 0, a, 1 a push stores under 2.
C7_NextIndex ==
    /\ obs.op # "panic"
    /\ hist.max_int # None => arr.next_index >= hist.max_int[1] + 1
    /\ obs.op = "push" =>
          /\ obs.key \notin DOMAIN obs.before.data
          /\ arr.data = MapPut(obs.before.data, obs.key, Inserted)
    /\ (obs.op = "push" /\ hist.order = <<KStr("b"), KInt(0), KStr("a"), KInt(1), obs.key>>)
          => obs.key = KInt(2)

\* The same with no key at the end of i64.
NextIndexBelowMax ==
    (hist.max_int # None /\ hist.max_int[1] < I64Max /\ obs.op # "panic") =>
        /\ arr.next_index >= hist.max_int[1] + 1
        /\ obs.op = "push" =>
              /\ obs.key \notin DOMAIN obs.before.data
              /\ arr.data = MapPut(obs.before.data, obs.key, Inserted)
        /\ (obs.op = "push"
            /\ hist.order = <<KStr("b"), KInt(0), KStr("a"), KInt(1), obs.key>>)
              => obs.key = KInt(2)

(***************************************************************************)
(* SpecCli: the php binary runs one parsed file on a new Engine and then   *)
(* prints the output, or reports the runtime error and exits with 1.       *)
(***************************************************************************)
Quotient(a, b) == Binary(a, "Divide", b)

\* echo 1 / 0;   $x = 1 / "0";   echo 1 / $u;
DivZeroStmts == {Echo(Quotient(Number(1), Number(0))),
                 Assignment("x", Quotient(Number(1), Str(<<"0">>))),
                 Echo(Quotient(Number(1), Variable("u")))}

\* $m = 1;
Mark == Assignment("m", Number(1))

\* echo "a";   echo 6 / 3;   echo "b";   $m = 1;   and the divisions by zero.
CliStmts == {Echoes("a"), Echo(Quotient(Number(6), Number(3))), Echoes("b"), Mark}
            \cup DivZeroStmts

CliPrograms == {<<s1>> : s1 \in CliStmts}
               \cup {<<s1, s2>> : s1 \in CliStmts, s2 \in CliStmts}
               \cup {<<s1, s2, s3>> : s1 \in CliStmts, s2 \in CliStmts, s3 \in CliStmts}

InitCli ==
    /\ engine = EngineNew
    /\ obs = [op |-> "start"]
    /\ reqs = <<>>
    /\ steps = 0
    /\ arr = PhpArrayNew
    /\ hist = [order |-> <<>>, max_int |-> None]
    /\ hasher = <<>>
    /\ pool = <<>>

\* engine.execute_stmt(&ast) has returned r for the file with the statements `program`.
Executed(r, program) ==
    /\ engine' = r.e
    /\ reqs' = program
    /\ obs' = [op |-> "executed", ok |-> r.ok, err |-> r.err]
    /\ steps' = steps + 1
    /\ UNCHANGED <<arr, hist, hasher, pool>>

CliExecute ==
    /\ obs.op = "start"
    /\ \E program \in CliPrograms : Executed(execute_stmt(Block(program), engine), program)

\* eprintln!("Runtime error: {}", e); process::exit(1);
CliFail ==
    /\ obs.op = "executed" /\ ~obs.ok
    /\ obs' = [op |-> "exited", code |-> 1, stdout |-> <<>>,
               stderr |-> "Runtime error: " \o obs.err]
    /\ UNCHANGED <<engine, reqs, steps, arr, hist, hasher, pool>>

\* print!("{}", engine.get_output());
CliPrint ==
    /\ obs.op = "executed" /\ obs.ok
    /\ obs' = [op |-> "exited", code |-> 0, stdout |-> get_output(engine), stderr |-> ""]
    /\ UNCHANGED <<engine, reqs, steps, arr, hist, hasher, pool>>

NextCli == CliExecute \/ CliFail \/ CliPrint

SpecCli == InitCli /\ [][NextCli]_vars

\* The first statement of the program that divides by zero; 0 if there is none.
FirstDivZero(program) ==
    IF \E i \in 1..Len(program) : program[i] \in DivZeroStmts
    THEN CHOOSE i \in 1..Len(program) :
            /\ program[i] \in DivZeroStmts
            /\ \A j \in 1..(i - 1) : program[j] \notin DivZeroStmts
    ELSE 0

\* What the statements echo.
RECURSIVE EchoedBy(_)
EchoedBy(program) ==
    IF program = <<>> THEN <<>>
    ELSE (CASE Head(program) = Echoes("a") -> <<"a">>
            [] Head(program) = Echoes("b") -> <<"b">>
            [] Head(program) = Echo(Quotient(Number(6), Number(3))) -> <<"2">>
            [] OTHER -> <<>>)
         \o EchoedBy(Tail(program))

\* C8: a division by a divisor that coerces to 0.0 fails with "Division by zero";
\* execute_stmt returns Err, no statement after the failing one runs, and the caller
\* shows no output of the run, not even that of the statements before the failing one.
C8_DivisionByZero ==
    /\ (obs.op = "executed" /\ FirstDivZero(reqs) > 0) =>
          /\ ~obs.ok
          /\ obs.err = "Division by zero"
          /\ engine.output = EchoedBy(SubSeq(reqs, 1, FirstDivZero(reqs) - 1))
          /\ "m" \in DOMAIN engine.variables
                <=> \E i \in 1..(FirstDivZero(reqs) - 1) : reqs[i] = Mark
    /\ (obs.op = "exited" /\ FirstDivZero(reqs) > 0) =>
          /\ obs.code = 1
          /\ obs.stdout = <<>>
          /\ obs.stderr = "Runtime error: Division by zero"
    /\ (obs.op = "exited" /\ FirstDivZero(reqs) = 0) =>
          /\ obs.code = 0
          /\ obs.stdout = EchoedBy(reqs)

\* C8 witness: echo "a"; echo 1 / 0; echo "b"; has exited with 1 and an empty stdout,
\* the a of the first statement still in the engine's buffer.
C8_Witness ==
    /\ obs.op = "exited" /\ obs.code = 1 /\ obs.stdout = <<>>
    /\ reqs = <<Echoes("a"), Echo(Quotient(Number(1), Number(0))), Echoes("b")>>
    /\ engine.output = <<"a">>

(***************************************************************************)
(* SpecPool: the engine pool of the web server and the handler that serves *)
(* each request with an engine of the pool.                                *)
(***************************************************************************)
PoolSize == 1
MaxRequests == 3

\* <?php $x = 1; echo "b";
CodeAssign ==
    <<"<", "?", "p", "h", "p", " ", "$", "x", " ", "=", " ", "1", ";", " ", "e", "c", "h", "o",
      " ", "\"", "b", "\"", ";">>

\* <?php echo $x;
CodeEchoVar ==
    <<"<", "?", "p", "h", "p", " ", "e", "c", "h", "o", " ", "$", "x", ";">>

\* <?php echo "a";
CodeEchoText ==
    <<"<", "?", "p", "h", "p", " ", "e", "c", "h", "o", " ", "\"", "a", "\"", ";">>

\* <?php function counter() { static $n = 0; $n++; return $n; } echo counter();
CodeCounter ==
    <<"<", "?", "p", "h", "p", " ", "f", "u", "n", "c", "t", "i", "o", "n", " ", "c", "o", "u",
      "n", "t", "e", "r", "(", ")", " ", "{", " ", "s", "t", "a", "t", "i", "c", " ", "$", "n",
      " ", "=", " ", "0", ";", " ", "$", "n", "+", "+", ";", " ", "r", "e", "t", "u", "r", "n",
      " ", "$", "n", ";", " ", "}", " ", "e", "c", "h", "o", " ", "c", "o", "u", "n", "t", "e",
      "r", "(", ")", ";">>

\* <?php echo "p"; echo 1 / $u;
CodeDivZero ==
    <<"<", "?", "p", "h", "p", " ", "e", "c", "h", "o", " ", "\"", "p", "\"", ";", " ", "e",
      "c", "h", "o", " ", "1", " ", "/", " ", "$", "u", ";">>

\* The requests: the code and the statements php_parser::parse yields for it.
Requests ==
    {[code |-> CodeAssign,
      ast |-> <<Assignment("x", Number(1)), Echoes("b")>>],
     [code |-> CodeEchoVar,
      ast |-> <<Echo(Variable("x"))>>],
     [code |-> CodeEchoText,
      ast |-> <<Echoes("a")>>],
     [code |-> CodeCounter,
      ast |-> <<FunctionDefinition("counter", <<>>,
          Block(<<StaticVar("n", Some(Number(0))),
                  Expression(Unary("PostIncrement", Variable("n"))),
                  Return(Some(Variable("n")))>>)),
      Echo(FunctionCall("counter", <<>>))>>],
     [code |-> CodeDivZero,
      ast |-> <<Echoes("p"), Echo(Quotient(Number(1), Variable("u")))>>]}

Whitespace == {" ", "\t", "\n", "\r"}

RECURSIVE trim_start(_)
trim_start(s) == IF s # <<>> /\ Head(s) \in Whitespace THEN trim_start(Tail(s)) ELSE s

RECURSIVE trim_end(_)
trim_end(s) ==
    IF s # <<>> /\ s[Len(s)] \in Whitespace THEN trim_end(SubSeq(s, 1, Len(s) - 1)) ELSE s

trim(s) == trim_end(trim_start(s))

RECURSIVE trim_start_matches(_, _)
trim_start_matches(s, c) ==
    IF s # <<>> /\ Head(s) = c THEN trim_start_matches(Tail(s), c) ELSE s

RECURSIVE trim_end_matches(_, _)
trim_end_matches(s, c) ==
    IF s # <<>> /\ s[Len(s)] = c THEN trim_end_matches(SubSeq(s, 1, Len(s) - 1), c) ELSE s

trim_matches(s, c) == trim_end_matches(trim_start_matches(s, c), c)

starts_with(s, prefix) == Len(s) >= Len(prefix) /\ SubSeq(s, 1, Len(prefix)) = prefix

ends_with(s, suffix) ==
    Len(s) >= Len(suffix) /\ SubSeq(s, Len(s) - Len(suffix) + 1, Len(s)) = suffix

contains(s, c) == \E i \in 1..Len(s) : s[i] = c

\* Option<&str>
strip_prefix(s, prefix) ==
    IF starts_with(s, prefix) THEN Some(SubSeq(s, Len(prefix) + 1, Len(s))) ELSE None

strip_suffix(s, suffix) ==
    IF ends_with(s, suffix) THEN Some(SubSeq(s, 1, Len(s) - Len(suffix))) ELSE None


\* "<?php echo "
EchoPrefix == <<"<", "?", "p", "h", "p", " ", "e", "c", "h", "o", " ">>

\* code.trim().starts_with("<?php echo ") && !code.contains("$")
fast_path(code) == starts_with(trim(code), EchoPrefix) /\ ~contains(code, "$")

fast_content(code) ==
    trim_matches(
        trim(unwrap_or(strip_suffix(unwrap_or(strip_prefix(trim(code), EchoPrefix), <<>>),
                                    <<";">>), <<>>)),
        "\"")

\* impl php_runtime::Engine { pub fn reset(&mut self) { } }
reset(e) == e

\* for stmt in ast { if let Err(e) = engine.execute_stmt(&stmt) { return Err(e); } }
RECURSIVE run_ast(_, _)
run_ast(ast, e) ==
    IF ast = <<>> THEN [e |-> e, ok |-> TRUE, err |-> ""]
    ELSE OnSignal(execute_stmt(Head(ast), e), LAMBDA r : run_ast(Tail(ast), r.e))

\* Ok(engine.get_output().to_string()) or Err(e), and the engine as the run left it.
run_result(r) ==
    [e |-> r.e, ok |-> r.ok, err |-> r.err, v |-> IF r.ok THEN get_output(r.e) ELSE <<>>]

execute_optimized_php(e, request) ==
    IF fast_path(request.code)
    THEN [e |-> e, ok |-> TRUE, err |-> "", v |-> fast_content(request.code)]
    ELSE run_result(run_ast(request.ast, e))

\* EnginePool::new(pool_size)
EnginePoolNew == [i \in 1..PoolSize |-> EngineNew]

InitPool ==
    /\ pool = EnginePoolNew
    /\ reqs = <<>>
    /\ obs = [op |-> "start"]
    /\ steps = 0
    /\ engine = EngineNew
    /\ arr = PhpArrayNew
    /\ hist = [order |-> <<>>, max_int |-> None]
    /\ hasher = <<>>

Remove(s, i) == SubSeq(s, 1, i - 1) \o SubSeq(s, i + 1, Len(s))

\* engine_pool.get_engine(): engines.pop(), and Engine::new() when the pool is empty.
GetEngine ==
    /\ steps < MaxRequests
    /\ \E request \in Requests :
          reqs' = Append(reqs, [request |-> request, at |-> "got", pooled |-> pool # <<>>,
                                engine |-> IF pool = <<>> THEN EngineNew ELSE pool[Len(pool)]])
    /\ pool' = IF pool = <<>> THEN pool ELSE SubSeq(pool, 1, Len(pool) - 1)
    /\ steps' = steps + 1
    /\ UNCHANGED <<engine, obs, arr, hist, hasher>>

Executing(i, r) ==
    reqs' = [reqs EXCEPT ![i] = [request |-> reqs[i].request, at |-> "executed",
                                 pooled |-> reqs[i].pooled, engine |-> r.e,
                                 result |-> [ok |-> r.ok, err |-> r.err, v |-> r.v]]]

\* let result = execute_optimized_php(&mut engine, &code).await;
ExecuteOptimized ==
    /\ \E i \in 1..Len(reqs) :
          /\ reqs[i].at = "got"
          /\ Executing(i, execute_optimized_php(reqs[i].engine, reqs[i].request))
    /\ UNCHANGED <<engine, obs, steps, pool, arr, hist, hasher>>

\* engine_pool.return_engine(engine): reset, then push if the pool is not full.
ReturnEngine ==
    /\ \E i \in 1..Len(reqs) :
          /\ reqs[i].at = "executed"
          /\ pool' = IF Len(pool) < PoolSize THEN Append(pool, reset(reqs[i].engine)) ELSE pool
          /\ reqs' = [reqs EXCEPT ![i].at = "returned"]
    /\ UNCHANGED <<engine, obs, steps, arr, hist, hasher>>

\* The ExecuteResponse of the request.
Respond ==
    /\ \E i \in 1..Len(reqs) :
          /\ reqs[i].at = "returned"
          /\ obs' = [op |-> "response", request |-> reqs[i].request,
                     pooled |-> reqs[i].pooled,
                     output |-> IF reqs[i].result.ok THEN reqs[i].result.v ELSE <<>>,
                     success |-> reqs[i].result.ok,
                     error |-> IF reqs[i].result.ok THEN None ELSE Some(reqs[i].result.err)]
          /\ reqs' = Remove(reqs, i)
    /\ UNCHANGED <<engine, steps, pool, arr, hist, hasher>>

NextPool == GetEngine \/ ExecuteOptimized \/ ReturnEngine \/ Respond

SpecPool == InitPool /\ [][NextPool]_vars

\* The response a new engine gives to the request.
FreshResponse(request) == execute_optimized_php(EngineNew, request)

\* C9: every engine in the pool is in the state of Engine::new(), and a request served
\* by an engine of the pool gets the response a new engine would give: it observes no
\* output, variable, function or static value of an earlier request.
C9_ResetTotal ==
    /\ \A i \in 1..Len(pool) : pool[i] = EngineNew
    /\ obs.op = "response" =>
          /\ obs.success = FreshResponse(obs.request).ok
          /\ obs.success => obs.output = FreshResponse(obs.request).v

\* What return_engine does keep: the pool never holds more than pool_size engines, and
\* a request served by a new engine gets the response of a new engine.
PoolBounded ==
    /\ Len(pool) <= PoolSize
    /\ \A i \in 1..Len(reqs) : reqs[i].at = "got" /\ ~reqs[i].pooled => reqs[i].engine = EngineNew

(***************************************************************************)
(* SpecScope: programs about the scope of a function body, the arity of a  *)
(* call, closures and null-coalescing, each run on a new engine or on one  *)
(* that has run a set-up program.                                          *)
(***************************************************************************)
\* function f($x) { return $x; }
DefineF == FunctionDefinition("f", <<"x">>, Block(<<Return(Some(Variable("x")))>>))

\* function noisy() { static $k = 0; $k++; echo "n"; return $k; }
DefineNoisy ==
    FunctionDefinition("noisy", <<>>,
        Block(<<StaticVar("k", Some(Number(0))),
                Expression(Unary("PostIncrement", Variable("k"))),
                Echoes("n"), Return(Some(Variable("k")))>>))

\* $c = fn($x) => $x;
DefineC == Assignment("c", ArrowFunction(<<"x">>, Variable("x")))

\* The set-up programs: variables only; f, noisy and the closure $c; the same with a
\* call of f that fails in its argument, which leaves the frame of f on the engine.
Setups ==
    {Block(<<Assignment("g", Number(5)), Assignment("x", Number(8)), Echoes("p")>>),
     Block(<<DefineF, DefineNoisy, DefineC, Assignment("g", Number(1)),
             Expression(FunctionCall("noisy", <<>>))>>),
     Block(<<DefineF, DefineNoisy, DefineC, Assignment("g", Number(1)),
             Expression(FunctionCall("f", <<Binary(Number(1), "Divide", Number(0))>>))>>)}

InitScope ==
    /\ engine = EngineNew
    /\ obs = [op |-> "init"]
    /\ steps = 0
    /\ arr = PhpArrayNew
    /\ hist = [order |-> <<>>, max_int |-> None]
    /\ hasher = <<>>
    /\ pool = <<>>
    /\ reqs = <<>>

Ready == obs.op \in {"init", "setup"}

Setup ==
    /\ obs.op = "init"
    /\ \E program \in Setups : RanFlow(execute_stmt(program, engine), [op |-> "setup"])

ScopeNames == {"g", "x", "l", "u"}

\* $g = 5; $x = 5; $l = 5; for the names in `names`.
AssignAll(names, value) ==
    (IF "g" \in names THEN <<Assignment("g", value)>> ELSE <<>>)
    \o (IF "x" \in names THEN <<Assignment("x", value)>> ELSE <<>>)
    \o (IF "l" \in names THEN <<Assignment("l", value)>> ELSE <<>>)

\* $g = 5; ... (the caller's variables)
\* function probe($x) { $l = 2; return $read; }   (with or without the assignment)
\* $r = probe(3);
ScopeProgram(caller, local, read) ==
    Block(AssignAll(caller, Number(5))
          \o <<FunctionDefinition("probe", <<"x">>,
                   Block((IF local THEN <<Assignment("l", Number(2))>> ELSE <<>>)
                         \o <<Return(Some(Variable(read)))>>)),
               Assignment("r", FunctionCall("probe", <<Number(3)>>))>>)

RunScope ==
    /\ Ready
    /\ \E caller \in SUBSET {"g", "x", "l"}, local \in BOOLEAN, read \in ScopeNames :
          RanFlow(execute_stmt(ScopeProgram(caller, local, read), engine),
                  [op |-> "scope", caller |-> caller, local |-> local, read |-> read])

\* 1, $g++ and noisy(): the last two change the engine when they are evaluated.
ArityArgs == {Number(1), Unary("PostIncrement", Variable("g")), FunctionCall("noisy", <<>>)}

ArityArgLists == {<<>>} \cup {<<a>> : a \in ArityArgs}
                 \cup {<<a, b>> : a \in ArityArgs, b \in ArityArgs}

\* f(args) and $c(args)
ArityCall(callee, args) ==
    IF callee = "function" THEN FunctionCall("f", args)
    ELSE DynamicCall(Variable("c"), args)

RunArity ==
    /\ Ready
    /\ \E callee \in {"function", "closure"}, args \in ArityArgLists :
          RanFlow(evaluate_expr(ArityCall(callee, args), engine),
                  [op |-> "arity", callee |-> callee, args |-> args])

\* The values the tested variable starts with; "unset" leaves it undefined.
CoalesceInits == {"unset", "null", "zero", "empty", "false", "array", "seven"}

InitExpr(init) ==
    CASE init = "null" -> Null
      [] init = "zero" -> Number(0)
      [] init = "empty" -> Str(<<>>)
      [] init = "false" -> Bool(FALSE)
      [] init = "array" -> Array(<<>>)
      [] OTHER -> Number(7)

InitValue(init) ==
    CASE init \in {"unset", "null"} -> VNull
      [] init = "zero" -> VFloat(0)
      [] init = "empty" -> VStr(<<>>)
      [] init = "false" -> VBool(FALSE)
      [] init = "array" -> VArr(PhpArrayNew)
      [] OTHER -> VFloat(7)

\* ++$n, which counts its evaluations in $n
Counted == Unary("PreIncrement", Variable("n"))

\* $n = 0; $m = 0; $v = init;   (no $v for "unset")
CoalesceStart(init) ==
    <<Assignment("n", Number(0)), Assignment("m", Number(0))>>
    \o (IF init = "unset" THEN <<>> ELSE <<Assignment("v", InitExpr(init))>>)

\* ... $v ??= ++$n;
CoalesceAssignProgram(init) ==
    Block(CoalesceStart(init) \o <<NullCoalesceAssign("v", Counted)>>)

\* ... $r = $v ?? ++$n;   or   $r = ++$m ?? ++$n;
CoalesceProgram(init, left) ==
    Block(CoalesceStart(init)
          \o <<Assignment("r", NullCoalesce(IF left = "variable" THEN Variable("v")
                                             ELSE Unary("PreIncrement", Variable("m")),
                                            Counted))>>)

\* $a = null; echo $a ?? 'default';
CoalesceScenario ==
    Block(<<Assignment("a", Null),
            Echo(NullCoalesce(Variable("a"), Str(<<"d", "e", "f", "a", "u", "l", "t">>)))>>)

RunCoalesceAssign ==
    /\ Ready
    /\ \E init \in CoalesceInits :
          RanFlow(execute_stmt(CoalesceAssignProgram(init), engine),
                  [op |-> "coalesce_assign", init |-> init])

RunCoalesce ==
    /\ Ready
    /\ \/ \E init \in CoalesceInits, left \in {"variable", "counted"} :
             RanFlow(execute_stmt(CoalesceProgram(init, left), engine),
                     [op |-> "coalesce", init |-> init, left |-> left])
       \/ RanFlow(execute_stmt(CoalesceScenario, engine), [op |-> "coalesce_scenario"])

ClosureBodies == {"x", "y", "x + y", "x++"}

ClosureBody(body) ==
    CASE body = "x" -> Variable("x")
      [] body = "y" -> Variable("y")
      [] body = "x + y" -> Binary(Variable("x"), "Add", Variable("y"))
      [] OTHER -> Unary("PostIncrement", Variable("x"))

\* $y = 5;   (or not)   $f = fn($x) => body;   $r = $f(3);
ClosureProgram(outer, body) ==
    Block((IF outer THEN <<Assignment("y", Number(5))>> ELSE <<>>)
          \o <<Assignment("f", ArrowFunction(<<"x">>, ClosureBody(body))),
               Assignment("r", DynamicCall(Variable("f"), <<Number(3)>>))>>)

RunClosure ==
    /\ Ready
    /\ \E outer \in BOOLEAN, body \in ClosureBodies :
          RanFlow(execute_stmt(ClosureProgram(outer, body), engine),
                  [op |-> "closure", outer |-> outer, body |-> body])

NextScope ==
    Setup \/ RunScope \/ RunArity \/ RunCoalesceAssign \/ RunCoalesce \/ RunClosure

SpecScope == InitScope /\ [][NextScope]_vars

\* C11: the body of a user-defined function sees only its parameters and what it has
\* assigned itself: a variable that is neither reads as Null, also when the caller has
\* a variable of that name.
C11_FreshBinding ==
    obs.op = "scope" =>
        /\ obs.ok
        /\ engine.variables["r"] =
              (CASE obs.read = "x" -> VFloat(3)
                 [] obs.read = "l" /\ obs.local -> VFloat(2)
                 [] OTHER -> VNull)

\* What the body does read: its parameter, its own assignment, and otherwise the
\* variable of the caller.
ScopeInherited ==
    obs.op = "scope" =>
        /\ obs.ok
        /\ engine.variables["r"] =
              (CASE obs.read = "x" -> VFloat(3)
                 [] obs.read = "l" /\ obs.local -> VFloat(2)
                 [] obs.read \in obs.caller -> VFloat(5)
                 [] obs.read \in DOMAIN obs.before.variables ->
                       obs.before.variables[obs.read]
                 [] OTHER -> VNull)

\* The set-up has defined f and the closure $c, both with one parameter.
Defined == "f" \in DOMAIN obs.before.functions

\* C13: a call of a user-defined function or of a closure with a number of arguments
\* other than its number of parameters fails, no argument is evaluated, and the
\* variables, the static storage, the static frame stack, current_function and the
\* output are as before the call.
C13_ArityMismatch ==
    (obs.op = "arity" /\ Defined /\ Len(obs.args) # 1) =>
        /\ ~obs.ok
        /\ engine.variables = obs.before.variables
        /\ engine.static_storage = obs.before.static_storage
        /\ engine.static_var_stack = obs.before.static_var_stack
        /\ engine.current_function = obs.before.current_function
        /\ engine.output = obs.before.output
        /\ engine.output_buffers = obs.before.output_buffers

\* C13 witness: f(noisy(), $g++) and $c(noisy(), $g++) have failed on an engine that
\* holds the static $k of noisy, and noisy has not run again.
C13_Witness ==
    /\ obs.op = "arity" /\ Defined /\ ~obs.ok
    /\ obs.args = <<FunctionCall("noisy", <<>>), Unary("PostIncrement", Variable("g"))>>
    /\ "noisy" \in DOMAIN engine.static_storage
    /\ engine.output = <<"n">>

\* C14: `$v ??= rhs` and `left ?? right` evaluate the right-hand side only when the
\* variable (the left operand) is null or undefined, and then exactly once; otherwise
\* the variable keeps its value (the result is the left value, evaluated once).
C14_CoalesceShortCircuit ==
    /\ obs.op = "coalesce_assign" =>
          /\ obs.ok
          /\ IF obs.init \in {"unset", "null"}
             THEN engine.variables["v"] = VFloat(1) /\ engine.variables["n"] = VFloat(1)
             ELSE /\ engine.variables["v"] = InitValue(obs.init)
                  /\ engine.variables["n"] = VFloat(0)
    /\ (obs.op = "coalesce" /\ obs.left = "variable") =>
          /\ obs.ok
          /\ IF obs.init \in {"unset", "null"}
             THEN engine.variables["r"] = VFloat(1) /\ engine.variables["n"] = VFloat(1)
             ELSE /\ engine.variables["r"] = InitValue(obs.init)
                  /\ engine.variables["n"] = VFloat(0)
    /\ (obs.op = "coalesce" /\ obs.left = "counted") =>
          /\ obs.ok
          /\ engine.variables["r"] = VFloat(1)
          /\ engine.variables["m"] = VFloat(1)
          /\ engine.variables["n"] = VFloat(0)
    /\ obs.op = "coalesce_scenario" =>
          /\ obs.ok
          /\ engine.output = obs.before.output \o <<"d", "e", "f", "a", "u", "l", "t">>

\* C14 witness: $v = 0; $v ??= ++$n; has left $v at 0 and $n at 0.
C14_Witness ==
    /\ obs.op = "coalesce_assign" /\ obs.init = "zero"
    /\ engine.variables["v"] = VFloat(0)
    /\ engine.variables["n"] = VFloat(0)

\* The name of a closure registered when the function table is that of obs.before:
\* empty, or f, noisy and the closure of the set-up.
RegisteredName ==
    <<"_", "_", "c", "l", "o", "s", "u", "r", "e", "_">>
        \o (IF Defined THEN <<"3">> ELSE <<"0">>)

\* The closure is in the function table under __closure_N, $f holds that name, and
\* after the call the caller's variables are those before it.
ClosureRegistered ==
    obs.op = "closure" =>
        /\ obs.ok
        /\ engine.variables["f"] = VStr(RegisteredName)
        /\ DOMAIN engine.functions = DOMAIN obs.before.functions \cup {JoinChars(RegisteredName)}
        /\ engine.functions[JoinChars(RegisteredName)].params = <<"x">>
        /\ \A name \in DOMAIN obs.before.variables \ {"f", "r", "y"} :
              name \in DOMAIN engine.variables
              /\ engine.variables[name] = obs.before.variables[name]
        /\ DOMAIN engine.variables
              = DOMAIN obs.before.variables \cup {"f", "r"} \cup (IF obs.outer THEN {"y"} ELSE {})

\* C20: a closure literal is registered as __closure_N and yields that name; called
\* through the variable it runs with only its parameters bound, so a variable of the
\* defining scope reads as Null in its body; the caller's variables are restored.
C20_ClosureScope ==
    /\ ClosureRegistered
    /\ obs.op = "closure" =>
          engine.variables["r"] = (CASE obs.body = "y" -> VNull [] OTHER -> VFloat(3))

\* What the body does read: its parameter, and otherwise the caller's variable.
ClosureInherited ==
    (obs.op = "closure" /\ obs.body \in {"y", "x + y"}) =>
        LET y == IF obs.outer THEN VFloat(5)
                 ELSE IF "y" \in DOMAIN obs.before.variables THEN obs.before.variables["y"]
                 ELSE VNull
        IN engine.variables["r"] = (IF obs.body = "y" THEN y ELSE php_add(VFloat(3), y))

(***************************************************************************)
(* SpecOb: statements that write output and that start and end output      *)
(* buffers, run one after the other on one engine.  hist is the observer's *)
(* own account of the text: what has reached the final output and what has *)
(* been written since each ob_start that is still open.                    *)
(***************************************************************************)
\* echo "a";   print "b";   printf("%s-%d%%", "c", 7);   each with the text it writes.
Writes ==
    {[stmt |-> Echoes("a"), text |-> <<"a">>],
     [stmt |-> PrintStmt(Str(<<"b">>)), text |-> <<"b">>],
     [stmt |-> Expression(FunctionCall("printf",
                   <<Str(<<"%", "s", "-", "%", "d", "%", "%">>), Str(<<"c">>), Number(7)>>)),
      text |-> <<"c", "-", "7", "%">>]}

InitOb ==
    /\ engine = EngineNew
    /\ hist = [final |-> <<>>, stack |-> <<>>]
    /\ obs = [op |-> "init"]
    /\ steps = 0
    /\ arr = PhpArrayNew
    /\ hasher = <<>>
    /\ pool = <<>>
    /\ reqs = <<>>

\* The text appended where output goes: the last open buffer, or the final output.
Appended(h, text) ==
    IF h.stack = <<>> THEN [h EXCEPT !.final = @ \o text]
    ELSE [h EXCEPT !.stack[Len(h.stack)] = @ \o text]

Popped(h) == IF h.stack = <<>> THEN h ELSE [h EXCEPT !.stack = SubSeq(@, 1, Len(@) - 1)]

RanOb(r, op, account) ==
    /\ engine' = r.e
    /\ hist' = account
    /\ obs' = [op |-> op, ok |-> r.ok, before |-> engine, account |-> hist]
    /\ steps' = steps + 1
    /\ UNCHANGED <<arr, hasher, pool, reqs>>

\* ob_start();
ObStart ==
    /\ steps < MaxOps
    /\ RanOb(execute_stmt(Expression(FunctionCall("ob_start", <<>>)), engine), "start",
             [hist EXCEPT !.stack = Append(@, <<>>)])

Write ==
    /\ steps < MaxOps
    /\ \E w \in Writes : RanOb(execute_stmt(w.stmt, engine), "write", Appended(hist, w.text))

\* $t = ob_get_clean();
ObGetClean ==
    /\ steps < MaxOps
    /\ RanOb(execute_stmt(Assignment("t", FunctionCall("ob_get_clean", <<>>)), engine),
             "clean", Popped(hist))

\* echo ob_get_clean();
EchoClean ==
    /\ steps < MaxOps
    /\ RanOb(execute_stmt(Echo(FunctionCall("ob_get_clean", <<>>)), engine), "echo_clean",
             IF hist.stack = <<>> THEN hist
             ELSE Appended(Popped(hist), hist.stack[Len(hist.stack)]))

NextOb == ObStart \/ Write \/ ObGetClean \/ EchoClean

SpecOb == InitOb /\ [][NextOb]_vars

\* C12: a write goes to the last started buffer that is still open and to nothing
\* else, and to the final output when none is open; ob_get_clean ends the last started
\* buffer and returns what was written since its ob_start, and with no open buffer it
\* returns false and changes nothing.
C12_OutputBuffers ==
    /\ engine.output = hist.final
    /\ engine.output_buffers = hist.stack
    /\ obs.op \in {"start", "write", "clean", "echo_clean"} => obs.ok
    /\ obs.op = "clean" =>
          IF obs.account.stack = <<>>
          THEN /\ engine.variables["t"] = VBool(FALSE)
               /\ engine.output = obs.before.output
               /\ engine.output_buffers = <<>>
          ELSE engine.variables["t"] = VStr(obs.account.stack[Len(obs.account.stack)])

\* C12 witness: with two buffers open, the inner one holding c-7% and the outer one a,
\* ob_get_clean has returned c-7%; the outer buffer still holds a and nothing has
\* reached the final output.
C12_Witness ==
    /\ obs.op = "clean"
    /\ engine.variables["t"] = VStr(<<"c", "-", "7", "%">>)
    /\ engine.output_buffers = <<<<"a">>>>
    /\ engine.output = <<>>

(***************************************************************************)
(* SpecParse: ExpressionParser::parse_expression on a sequence of tokens.  *)
(* The parser's state is the sequence and the position of the next token.  *)
(***************************************************************************)
TNumber(n) == [t |-> "Number", n |-> n]
TVariable(name) == [t |-> "Variable", name |-> name]
Tok(t) == [t |-> t]

\* tokens.peek(): Option<&Token>
peek(tokens, position) == IF position <= Len(tokens) THEN Some(tokens[position]) ELSE None

\* ParseResult<T> with the position afterwards; err is the variant of ParseError.
ParseOk(expr, position) == [ok |-> TRUE, expr |-> expr, position |-> position, err |-> ""]
ParseErr(err, position) == [ok |-> FALSE, expr |-> Null, position |-> position, err |-> err]

OnParsed(r, Rest(_)) == IF ~r.ok THEN r ELSE Rest(r)

\* The tokens the precedence loop takes for a binary operator, with the operator.
binary_op_token ==
    [Plus |-> "Add", Minus |-> "Subtract", Multiply |-> "Multiply", Divide |-> "Divide",
     Dot |-> "Concatenate", DoubleEquals |-> "Equal", NotEquals |-> "NotEqual",
     LessThan |-> "LessThan", GreaterThan |-> "GreaterThan",
     LessOrEqual |-> "LessThanOrEqual", GreaterOrEqual |-> "GreaterThanOrEqual",
     Spaceship |-> "Spaceship", Ampersand |-> "BitwiseAnd", Pipe |-> "BitwiseOr",
     LogicalAnd |-> "LogicalAnd", LogicalOr |-> "LogicalOr",
     NullCoalescing |-> "Concatenate"]

\* A precedence table with the multiplicative operators at the additive level.
get_precedence_flat(op) ==
    CASE op = "LogicalOr" -> 0
      [] op = "LogicalAnd" -> 1
      [] op \in {"Equal", "NotEqual"} -> 2
      [] op \in {"LessThan", "GreaterThan", "LessThanOrEqual", "GreaterThanOrEqual",
                 "Spaceship"} -> 3
      [] op \in {"BitwiseAnd", "BitwiseOr"} -> 4
      [] op = "Concatenate" -> 5
      [] OTHER -> 6

get_precedence(op) ==
    CASE op = "LogicalOr" -> 0
      [] op = "LogicalAnd" -> 1
      [] op \in {"Equal", "NotEqual"} -> 2
      [] op \in {"LessThan", "GreaterThan", "LessThanOrEqual", "GreaterThanOrEqual",
                 "Spaceship"} -> 3
      [] op \in {"BitwiseAnd", "BitwiseOr"} -> 4
      [] op = "Concatenate" -> 5
      [] op \in {"Add", "Subtract"} -> 6
      [] OTHER -> 7

\* consume_token: the next token is taken in every case.
consume_token(tokens, position, expected) ==
    IF peek(tokens, position) = None THEN ParseErr("UnexpectedEof", position + 1)
    ELSE IF tokens[position].t = expected THEN ParseOk(Null, position + 1)
    ELSE ParseErr("ExpectedToken", position + 1)

RECURSIVE parse_expression_precedence(_, _, _), binary_loop(_, _, _),
          coalesce_loop(_, _), ternary_part(_, _), parse_primary(_, _),
          parse_array_literal(_, _, _)

\* parse_primary for a number, a string, a variable that no `(` follows, a
\* parenthesized expression that is not a cast, and an array literal.
parse_primary(tokens, position) ==
    IF peek(tokens, position) = None THEN ParseErr("UnexpectedEof", position + 1)
    ELSE CASE tokens[position].t = "Number" ->
                 ParseOk(Number(tokens[position].n), position + 1)
           [] tokens[position].t = "String" ->
                 ParseOk(String(tokens[position].s), position + 1)
           [] tokens[position].t = "Variable" ->
                 ParseOk(Variable(tokens[position].name), position + 1)
           [] tokens[position].t = "OpenParen" ->
                 OnParsed(parse_expression_precedence(tokens, position + 1, 0), LAMBDA inner :
                     OnParsed(consume_token(tokens, inner.position, "CloseParen"),
                         LAMBDA close : ParseOk(inner.expr, close.position)))
           [] tokens[position].t = "OpenBracket" ->
                 IF peek(tokens, position + 1) = Some(Tok("CloseBracket"))
                 THEN ParseOk(Array(<<>>), position + 2)
                 ELSE parse_array_literal(tokens, position + 1, <<>>)
           [] OTHER -> ParseErr("UnexpectedToken", position + 1)

\* After an element of parse_array_literal: a comma, the closing bracket, or an error.
array_close(tokens, position, elements) ==
    OnParsed(consume_token(tokens, position, "CloseBracket"),
        LAMBDA close : ParseOk(Array(elements), close.position))

\* The `loop` of parse_array_literal, with `elements` parsed up to position.
parse_array_literal(tokens, position, elements) ==
    OnParsed(parse_expression_precedence(
                 tokens,
                 IF peek(tokens, position) = Some(Tok("Ellipsis")) THEN position + 1
                 ELSE position, 0),
        LAMBDA value :
            OnParsed(IF peek(tokens, value.position) = Some(Tok("Arrow"))
                     THEN OnParsed(parse_expression_precedence(tokens, value.position + 1, 0),
                              LAMBDA key_value :
                                  ParseOk(ArrayElement(Some(value.expr), key_value.expr),
                                          key_value.position))
                     ELSE ParseOk(ArrayElement(None, value.expr), value.position),
                LAMBDA element :
                    IF peek(tokens, element.position) = Some(Tok("Comma"))
                    THEN IF peek(tokens, element.position + 1) = Some(Tok("CloseBracket"))
                         THEN array_close(tokens, element.position + 1,
                                          Append(elements, element.expr))
                         ELSE parse_array_literal(tokens, element.position + 1,
                                                  Append(elements, element.expr))
                    ELSE IF peek(tokens, element.position) = Some(Tok("CloseBracket"))
                    THEN array_close(tokens, element.position, Append(elements, element.expr))
                    ELSE ParseErr("ExpectedToken", element.position)))

\* parse_postfix: $i++ and $i--
parse_postfix(tokens, r) ==
    IF peek(tokens, r.position) = Some(Tok("Increment"))
    THEN ParseOk(Unary("PostIncrement", r.expr), r.position + 1)
    ELSE IF peek(tokens, r.position) = Some(Tok("Decrement"))
    THEN ParseOk(Unary("PostDecrement", r.expr), r.position + 1)
    ELSE r

\* consume_token(Token::Colon)
consume_colon(tokens, r) ==
    IF peek(tokens, r.position) = Some(Tok("Colon"))
    THEN ParseOk(r.expr, r.position + 1)
    ELSE ParseErr(consume_token(tokens, r.position, "Colon").err, r.position + 1)

\* The `loop` of parse_expression_precedence, with `left` parsed up to left.position.
binary_loop(tokens, left, min_precedence) ==
    IF peek(tokens, left.position) = None
       \/ tokens[left.position].t \notin DOMAIN binary_op_token
    THEN left
    ELSE IF get_precedence(binary_op_token[tokens[left.position].t]) < min_precedence
    THEN left
    ELSE OnParsed(parse_expression_precedence(
                      tokens, left.position + 1,
                      get_precedence(binary_op_token[tokens[left.position].t]) + 1),
            LAMBDA right :
                binary_loop(tokens,
                            ParseOk(Binary(left.expr, binary_op_token[tokens[left.position].t],
                                           right.expr),
                                    right.position),
                            min_precedence))

\* while let Some(Token::NullCoalescing) = tokens.peek()
coalesce_loop(tokens, left) ==
    IF peek(tokens, left.position) # Some(Tok("NullCoalescing")) THEN left
    ELSE OnParsed(parse_expression_precedence(tokens, left.position + 1, 0), LAMBDA rhs :
            coalesce_loop(tokens, ParseOk(NullCoalesce(left.expr, rhs.expr), rhs.position)))

\* if let Some(Token::QuestionMark) = tokens.peek()
ternary_part(tokens, left) ==
    IF peek(tokens, left.position) # Some(Tok("QuestionMark")) THEN left
    ELSE IF peek(tokens, left.position + 1) = Some(Tok("Colon"))
    THEN OnParsed(parse_expression_precedence(tokens, left.position + 2, 0),
            LAMBDA else_expr :
                ParseOk(Ternary(left.expr, None, else_expr.expr), else_expr.position))
    ELSE OnParsed(parse_expression_precedence(tokens, left.position + 1, 0),
            LAMBDA then_part :
                OnParsed(consume_colon(tokens, then_part), LAMBDA colon :
                    OnParsed(parse_expression_precedence(tokens, colon.position, 0),
                        LAMBDA else_expr :
                            ParseOk(Ternary(left.expr, Some(then_part.expr), else_expr.expr),
                                    else_expr.position))))

\* parse_postfix_access leaves an operand that no `[` and no `->` follows as it is.
parse_expression_precedence(tokens, position, min_precedence) ==
    OnParsed(parse_primary(tokens, position), LAMBDA primary :
        OnParsed(binary_loop(tokens, parse_postfix(tokens, primary), min_precedence),
            LAMBDA left :
                OnParsed(coalesce_loop(tokens, left), LAMBDA coalesced :
                    ternary_part(tokens, coalesced))))

parse_expression(tokens) == parse_expression_precedence(tokens, 1, 0)

\* The binary operators that have a token, and the token of each.
BinaryOps ==
    {"Add", "Subtract", "Multiply", "Divide", "Concatenate", "Equal", "NotEqual", "LessThan",
     "GreaterThan", "LessThanOrEqual", "GreaterThanOrEqual", "Spaceship", "BitwiseAnd",
     "BitwiseOr", "LogicalAnd", "LogicalOr"}

TokenOf(op) ==
    Tok(CHOOSE name \in DOMAIN binary_op_token \ {"NullCoalescing"} :
            binary_op_token[name] = op)

A == TVariable("a")
B == TVariable("b")
C == TVariable("c")
D == TVariable("d")

\* The token sequences that are parsed, each with the form it has:
\*   a o1 b o2 c    2 + 3 * 4    a ?? b    a op b ?? c    a ?? b ?? c
\*   a op b ? c : d    a ? c : d    a ?: d    a ? b ? c : d : a    a++ op b
ParseInputs ==
    {[form |-> "two", o1 |-> o1, o2 |-> o2, tokens |-> <<A, TokenOf(o1), B, TokenOf(o2), C>>] :
        o1 \in BinaryOps, o2 \in BinaryOps}
    \cup {[form |-> "numbers",
           tokens |-> <<TNumber(2), Tok("Plus"), TNumber(3), Tok("Multiply"), TNumber(4)>>]}
    \cup {[form |-> "coalesce", tokens |-> <<A, Tok("NullCoalescing"), B>>]}
    \cup {[form |-> "op_coalesce", op |-> op,
           tokens |-> <<A, TokenOf(op), B, Tok("NullCoalescing"), C>>] : op \in BinaryOps}
    \cup {[form |-> "coalesce_chain",
           tokens |-> <<A, Tok("NullCoalescing"), B, Tok("NullCoalescing"), C>>]}
    \cup {[form |-> "op_ternary", op |-> op,
           tokens |-> <<A, TokenOf(op), B, Tok("QuestionMark"), C, Tok("Colon"), D>>] :
            op \in BinaryOps}
    \cup {[form |-> "ternary", tokens |-> <<A, Tok("QuestionMark"), C, Tok("Colon"), D>>]}
    \cup {[form |-> "short_ternary", tokens |-> <<A, Tok("QuestionMark"), Tok("Colon"), D>>]}
    \cup {[form |-> "postfix", op |-> op, tokens |-> <<A, Tok("Increment"), TokenOf(op), B>>] :
            op \in BinaryOps}

InitParse ==
    /\ reqs \in ParseInputs
    /\ obs = [op |-> "init"]
    /\ engine = EngineNew
    /\ steps = 0
    /\ arr = PhpArrayNew
    /\ hist = [order |-> <<>>, max_int |-> None]
    /\ hasher = <<>>
    /\ pool = <<>>

Parsed(r) ==
    /\ obs' = [op |-> "parsed", ok |-> r.ok, expr |-> r.expr, position |-> r.position]
    /\ steps' = steps + 1
    /\ UNCHANGED <<engine, reqs, arr, hist, hasher, pool>>

ParseExpression ==
    /\ obs.op = "init"
    /\ Parsed(parse_expression(reqs.tokens))

NextParse == ParseExpression

SpecParse == InitParse /\ [][NextParse]_vars

VarA == Variable("a")
VarB == Variable("b")
VarC == Variable("c")
VarD == Variable("d")

\* C15: `??` is applied after the binary operators, at lower precedence than each of
\* them and right-associatively: a ?? b is NullCoalesce{a, b}, a op b ?? c is
\* NullCoalesce{Binary(a op b), c}, a ?? b ?? c is NullCoalesce{a, NullCoalesce{b, c}}.
C15_CoalesceParse ==
    obs.op = "parsed" =>
        /\ reqs.form = "coalesce" => obs.ok /\ obs.expr = NullCoalesce(VarA, VarB)
        /\ reqs.form = "op_coalesce" =>
              obs.ok /\ obs.expr = NullCoalesce(Binary(VarA, reqs.op, VarB), VarC)
        /\ reqs.form = "coalesce_chain" =>
              obs.ok /\ obs.expr = NullCoalesce(VarA, NullCoalesce(VarB, VarC))

\* What the parser yields for the three forms: a `??` that the precedence loop meets
\* becomes a Binary Concatenate, and one that it leaves becomes a NullCoalesce of the
\* operand before it alone.
CoalesceAsParsed ==
    obs.op = "parsed" =>
        /\ reqs.form = "coalesce" => obs.ok /\ obs.expr = Binary(VarA, "Concatenate", VarB)
        /\ reqs.form = "op_coalesce" =>
              /\ obs.ok
              /\ obs.expr = IF reqs.op \in {"Concatenate", "Add", "Subtract", "Multiply", "Divide"}
                            THEN Binary(VarA, reqs.op, NullCoalesce(VarB, VarC))
                            ELSE Binary(VarA, reqs.op, Binary(VarB, "Concatenate", VarC))
        /\ reqs.form = "coalesce_chain" =>
              obs.ok /\ obs.expr = Binary(VarA, "Concatenate", NullCoalesce(VarB, VarC))

\* C16: the ternary binds looser than every binary operator: a op b ? c : d is
\* Ternary{Binary(a op b), c, d}.
C16_TernaryParse ==
    (obs.op = "parsed" /\ reqs.form = "op_ternary") =>
        /\ obs.ok
        /\ obs.expr = Ternary(Binary(VarA, reqs.op, VarB), Some(VarC), VarD)

\* What the parser yields: the ternary is taken by the right operand.
TernaryAsParsed ==
    obs.op = "parsed" =>
        /\ reqs.form = "op_ternary" =>
              obs.ok /\ obs.expr = Binary(VarA, reqs.op, Ternary(VarB, Some(VarC), VarD))
        /\ reqs.form = "ternary" => obs.ok /\ obs.expr = Ternary(VarA, Some(VarC), VarD)
        /\ reqs.form = "short_ternary" => obs.ok /\ obs.expr = Ternary(VarA, None, VarD)

\* The levels of the precedence ladder, lowest first.
Ladder ==
    <<{"LogicalOr"}, {"LogicalAnd"}, {"Equal", "NotEqual"},
      {"LessThan", "GreaterThan", "LessThanOrEqual", "GreaterThanOrEqual", "Spaceship"},
      {"BitwiseAnd", "BitwiseOr"}, {"Concatenate"}, {"Add", "Subtract"},
      {"Multiply", "Divide"}>>

Level(op) == CHOOSE i \in 1..Len(Ladder) : op \in Ladder[i]

\* C17: a o1 b o2 c is Binary(o1, a, Binary(o2, b, c)) when o2 is on a higher level of
\* the ladder than o1 and Binary(o2, Binary(o1, a, b), c) otherwise; 2 + 3 * 4 is
\* Binary(Add, 2, Binary(Multiply, 3, 4)).
C17_Precedence ==
    obs.op = "parsed" =>
        /\ reqs.form = "two" =>
              /\ obs.ok
              /\ obs.position = Len(reqs.tokens) + 1
              /\ obs.expr = IF Level(reqs.o2) > Level(reqs.o1)
                            THEN Binary(VarA, reqs.o1, Binary(VarB, reqs.o2, VarC))
                            ELSE Binary(Binary(VarA, reqs.o1, VarB), reqs.o2, VarC)
        /\ reqs.form = "numbers" =>
              /\ obs.ok
              /\ obs.expr = Binary(Number(2), "Add", Binary(Number(3), "Multiply", Number(4)))

\* C17 witness: a - b * c and a * b - c have been parsed, the first to a - (b * c) and
\* the second to (a * b) - c.
C17_Witness ==
    /\ obs.op = "parsed" /\ reqs.form = "two"
    /\ \/ /\ reqs.o1 = "Subtract" /\ reqs.o2 = "Multiply"
          /\ obs.expr = Binary(VarA, "Subtract", Binary(VarB, "Multiply", VarC))
       \/ /\ reqs.o1 = "Multiply" /\ reqs.o2 = "Subtract"
          /\ obs.expr = Binary(Binary(VarA, "Multiply", VarB), "Subtract", VarC)

(***************************************************************************)
(* SpecCompare: the comparison operators of Expr::Binary on two values.    *)
(***************************************************************************)
\* null, false, true, -1, 0, 2, 10, 0.0, 2.0, NaN, "", "9", "10", "a", "abc", []
CompareValues ==
    {VNull, VBool(FALSE), VBool(TRUE), VInt(-1), VInt(0), VInt(2), VInt(10),
     VFloat(0), VFloat(2), VNaN,
     VStr(<<>>), VStr(<<"9">>), VStr(<<"1", "0">>), VStr(<<"a">>), VStr(<<"a", "b", "c">>),
     VArr(PhpArrayNew)}

InitCompare ==
    /\ reqs \in [left : CompareValues, right : CompareValues]
    /\ obs = [op |-> "init"]
    /\ engine = EngineNew
    /\ steps = 0
    /\ arr = PhpArrayNew
    /\ hist = [order |-> <<>>, max_int |-> None]
    /\ hasher = <<>>
    /\ pool = <<>>

\* left <=> right, left < right, left == right and left > right on the engine.
Compare ==
    /\ obs.op = "init"
    /\ obs' = [op |-> "compared",
               cmp |-> binary_op("Spaceship", reqs.left, reqs.right, engine).v,
               lt |-> binary_op("LessThan", reqs.left, reqs.right, engine).v,
               eq |-> binary_op("Equal", reqs.left, reqs.right, engine).v,
               gt |-> binary_op("GreaterThan", reqs.left, reqs.right, engine).v]
    /\ steps' = steps + 1
    /\ UNCHANGED <<engine, reqs, arr, hist, hasher, pool>>

NextCompare == Compare

SpecCompare == InitCompare /\ [][NextCompare]_vars

\* C19: a <=> b is -1, 0 or 1, and it is -1 exactly when a < b, 0 exactly when
\* a == b and 1 exactly when a > b, for operands of any types.
C19_SpaceshipAgrees ==
    obs.op = "compared" =>
        /\ obs.cmp \in {VInt(-1), VInt(0), VInt(1)}
        /\ obs.cmp = VInt(-1) <=> obs.lt = VBool(TRUE)
        /\ obs.cmp = VInt(0) <=> obs.eq = VBool(TRUE)
        /\ obs.cmp = VInt(1) <=> obs.gt = VBool(TRUE)

\* The pairs on which the four operators follow one rule: two numbers that are not
\* NaN, or two strings.
OneRule ==
    \/ IsNum(reqs.left) /\ IsNum(reqs.right) /\ reqs.left # VNaN /\ reqs.right # VNaN
    \/ reqs.left.t = "String" /\ reqs.right.t = "String"

\* On those pairs <=> agrees with <, == and >; its result is one of -1, 0, 1 always.
SpaceshipSameRule ==
    obs.op = "compared" =>
        /\ obs.cmp \in {VInt(-1), VInt(0), VInt(1)}
        /\ OneRule =>
              /\ obs.cmp = VInt(-1) <=> obs.lt = VBool(TRUE)
              /\ obs.cmp = VInt(0) <=> obs.eq = VBool(TRUE)
              /\ obs.cmp = VInt(1) <=> obs.gt = VBool(TRUE)

(***************************************************************************)
(* SpecJson: json_encode and json_decode on arrays whose keys were         *)
(* inserted in a known order, under every order in which the HashMap of a  *)
(* PhpArray may yield its keys.                                            *)
(***************************************************************************)
JsonKeys == {KInt(0), KInt(1), KInt(2), KStr(<<"a">>), KStr(<<"b">>)}

JsonOrders ==
    {order \in [1..Cardinality(JsonKeys) -> JsonKeys] :
        \A i \in DOMAIN order, j \in DOMAIN order : i # j => order[i] # order[j]}

\* The keys of an array in the order of their insertion.
JsonKeySeqs ==
    {<<>>, <<KInt(0)>>, <<KInt(0), KInt(1)>>, <<KInt(0), KInt(1), KInt(2)>>,
     <<KInt(1), KInt(0)>>, <<KInt(0), KInt(2)>>, <<KInt(1)>>, <<KInt(2), KInt(1), KInt(0)>>,
     <<KStr(<<"a">>)>>, <<KInt(0), KStr(<<"a">>)>>, <<KStr(<<"a">>), KStr(<<"b">>)>>}

\* The value stored under position i of a key sequence.
JsonItem(i) == IF i = 2 THEN VStr(<<"x", "/", "y">>) ELSE VInt(i)

RECURSIVE InsertKeys(_, _, _)
InsertKeys(keys, i, a) ==
    IF i > Len(keys) THEN a
    ELSE InsertKeys(keys, i + 1,
                    IF keys[i].kt = "Int" THEN insert_int(a, keys[i].i, JsonItem(i))
                    ELSE insert_string(a, keys[i].s, JsonItem(i)))

\* ['a' => 1, 'b' => [1, 2, 3]]
RoundTripLiteral ==
    Array(<<ArrayElement(Some(String(<<"a">>)), Number(1)),
            ArrayElement(Some(String(<<"b">>)),
                         Array(<<ArrayElement(None, Number(1)), ArrayElement(None, Number(2)),
                                 ArrayElement(None, Number(3))>>))>>)

\* Texts given to json_decode on their own.
JsonTexts ==
    {<<"[", "1", ",", " ", "-", "2", "]">>, <<"{", "\"", "k", "\"", ":", "n", "u", "l", "l", "}">>,
     <<"{", "\"", "k", "\"", ":", "1", ",", "\"", "k", "\"", ":", "t", "r", "u", "e", "}">>,
     <<"\"", "a", "\\", "/", "b", "\"">>, <<"[", "1", ",", "]">>, <<"0", "1">>, <<"[", "]", "x">>,
     <<>>}

InitJson ==
    /\ hasher \in JsonOrders
    /\ engine = EngineNew
    /\ obs = [op |-> "init"]
    /\ steps = 0
    /\ arr = PhpArrayNew
    /\ hist = [order |-> <<>>, max_int |-> None]
    /\ pool = <<>>
    /\ reqs = <<>>

\* $r = json_encode($v); with $v an array built by inserting keys in the given order.
JsonEncode ==
    /\ obs.op = "init"
    /\ \E keys \in JsonKeySeqs, flags \in {0, 1} :
          RanFlow(execute_stmt(Assignment("r", FunctionCall("json_encode",
                                                            <<Variable("v"), Constant(
                                                                IF flags = 1
                                                                THEN "JSON_UNESCAPED_SLASHES"
                                                                ELSE "JSON_THROW_ON_ERROR")>>)),
                               [engine EXCEPT !.variables =
                                   MapPut(@, "v", VArr(InsertKeys(keys, 1, PhpArrayNew)))]),
                  [op |-> "encode", keys |-> keys, flags |-> flags])

\* $r = json_decode(json_encode(['a' => 1, 'b' => [1, 2, 3]]), true);
JsonRoundTrip ==
    /\ obs.op = "init"
    /\ RanFlow(execute_stmt(Assignment("r", FunctionCall("json_decode",
                                <<FunctionCall("json_encode", <<RoundTripLiteral>>),
                                  Bool(TRUE)>>)),
                            engine),
               [op |-> "round_trip"])

\* $r = json_decode($t, assoc);
JsonDecode ==
    /\ obs.op = "init"
    /\ \E text \in JsonTexts, assoc \in BOOLEAN :
          RanFlow(execute_stmt(Assignment("r", FunctionCall("json_decode",
                                                            <<Variable("t"), Bool(assoc)>>)),
                               [engine EXCEPT !.variables = MapPut(@, "t", VStr(text))]),
                  [op |-> "decode", text |-> text, assoc |-> assoc])

NextJson == JsonEncode \/ JsonRoundTrip \/ JsonDecode

SpecJson == InitJson /\ [][NextJson]_vars

\* The keys are 0..n-1 in the order of their insertion.
KeysInOrder(keys) == \A i \in 1..Len(keys) : keys[i] = KInt(i - 1)

\* "[" item "," item ... "]" with the items in the order of the keys 0..n-1.
ListText(keys, unesc_slash) ==
    <<"[">> \o EncodeParts([k \in Range(keys) |->
                               JsonItem(CHOOSE i \in 1..Len(keys) : keys[i] = k)],
                           keys, 1, TRUE, unesc_slash, FALSE) \o <<"]">>

OneTwoThree == [data |-> (KInt(0) :> VInt(1)) @@ (KInt(1) :> VInt(2)) @@ (KInt(2) :> VInt(3)),
                next_index |-> 3]

\* C18: json_encode emits a JSON array exactly when the array's keys are 0..n-1 in
\* order, as in an array built by appending n values, with the elements in that
\* order, and a JSON object otherwise; json_decode(json_encode(['a' => 1,
\* 'b' => [1, 2, 3]]), true) is an array with "a" mapped to 1 and "b" mapped to the
\* 3-element list 1, 2, 3.
C18_JsonListDetection ==
    /\ obs.op = "encode" =>
          /\ obs.ok
          /\ KeysInOrder(obs.keys) =>
                engine.variables["r"] = VStr(ListText(obs.keys, obs.flags = 1))
          /\ ~KeysInOrder(obs.keys) => Head(engine.variables["r"].s) = "{"
    /\ obs.op = "round_trip" =>
          /\ obs.ok
          /\ engine.variables["r"].t = "Array"
          /\ engine.variables["r"].a.data =
                (KStr(<<"a">>) :> VInt(1)) @@ (KStr(<<"b">>) :> VArr(OneTwoThree))

\* The map yields the Int keys it holds in ascending order.
AscendingInts(data) ==
    \A i \in 1..Len(HashIter(data)), j \in 1..Len(HashIter(data)) :
        (i < j /\ HashIter(data)[i].kt = "Int" /\ HashIter(data)[j].kt = "Int")
            => HashIter(data)[i].i < HashIter(data)[j].i

\* What json_encode does: a JSON array exactly when the keys are Ints that come out
\* of the map as 0, 1, ..., whatever the order of their insertion; the round trip of
\* ['a' => 1, 'b' => [1, 2, 3]] gives the 3-element list when the map yields 0, 1, 2
\* in ascending order, and an array of string keys "0", "1", "2" when it does not.
JsonListByIteration ==
    /\ obs.op = "encode" =>
          /\ obs.ok
          /\ Head(engine.variables["r"].s) = "[" <=>
                is_list(HashIter(engine.variables["v"].a.data))
          /\ Head(engine.variables["r"].s) \in {"[", "{"}
    /\ obs.op = "round_trip" =>
          /\ obs.ok
          /\ engine.variables["r"].a.data[KStr(<<"a">>)] = VInt(1)
          /\ AscendingInts(OneTwoThree.data) =>
                engine.variables["r"].a.data[KStr(<<"b">>)] = VArr(OneTwoThree)
          /\ ~AscendingInts(OneTwoThree.data) =>
                DOMAIN engine.variables["r"].a.data[KStr(<<"b">>)].a.data =
                    {KStr(<<"0">>), KStr(<<"1">>), KStr(<<"2">>)}

\* json_decode gives null for a text that is not one JSON value, and keeps the last
\* of two entries of one key.
JsonDecodeTexts ==
    obs.op = "decode" =>
        /\ obs.ok
        /\ obs.text \in {<<"[", "1", ",", "]">>, <<"0", "1">>, <<"[", "]", "x">>, <<>>}
              => engine.variables["r"] = VNull
        /\ obs.text = <<"[", "1", ",", " ", "-", "2", "]">> =>
              engine.variables["r"].a.data = (KInt(0) :> VInt(1)) @@ (KInt(1) :> VInt(-2))
        /\ (obs.assoc /\ Len(obs.text) = 16) =>
              engine.variables["r"].a.data = (KStr(<<"k">>) :> VBool(TRUE))
        /\ obs.text = <<"\"", "a", "\\", "/", "b", "\"">> =>
              engine.variables["r"] = VStr(<<"a", "/", "b">>)

(***************************************************************************)
(* SpecTop: one statement given to execute_stmt on a new engine (names     *)
(* that are not defined, calls that fail, calls whose arguments name the   *)
(* callee's parameters, a function that calls itself), and function        *)
(* definitions interleaved with closure literals.                          *)
(***************************************************************************)
InitTop ==
    /\ engine = EngineNew
    /\ obs = [op |-> "init"]
    /\ hist = [closures |-> <<>>, user |-> {}]
    /\ steps = 0
    /\ arr = PhpArrayNew
    /\ hasher = <<>>
    /\ pool = <<>>
    /\ reqs = <<>>

\* function h() { return 7; }
DefineH == FunctionDefinition("h", <<>>, Block(<<Return(Some(Number(7)))>>))

\* $g, K and h() are defined by the program; $u, U and nofn() are not.
NameExpr(kind, defined) ==
    CASE kind = "variable" -> Variable(IF defined THEN "g" ELSE "u")
      [] kind = "constant" -> Constant(IF defined THEN "K" ELSE "U")
      [] OTHER -> FunctionCall(IF defined THEN "h" ELSE "nofn", <<>>)

\* $r = X;   echo X;   $r = X . "s";   $r = h2(X) with function h2($x) { return 1; }
NameStmt(context, x) ==
    CASE context = "assign" -> Assignment("r", x)
      [] context = "echo" -> Echo(x)
      [] context = "operand" -> Assignment("r", Binary(x, "Concatenate", Str(<<"s">>)))
      [] OTHER -> Assignment("r", FunctionCall("h2", <<x>>))

\* $g = 5; const K = 3; function h() ..; function h2($x) ..; <statement>; echo "q";
NameProgram(kind, defined, context) ==
    Block(<<Assignment("g", Number(5)), ConstantDefinition("K", Number(3)), DefineH,
            FunctionDefinition("h2", <<"x">>, Block(<<Return(Some(Number(1)))>>)),
            NameStmt(context, NameExpr(kind, defined)), Echoes("q")>>)

ReadName ==
    /\ obs.op = "init"
    /\ \E kind \in {"variable", "constant", "function"}, defined \in BOOLEAN,
          context \in {"assign", "echo", "operand", "argument"} :
          RanFlow(execute_stmt(NameProgram(kind, defined, context), engine),
                  [op |-> "read", kind |-> kind, defined |-> defined, context |-> context])

\* function f($x) { static $k = 0; return 1 / $x; }     $c = fn($x) => 1 / $x;
DefineInverse(callee) ==
    IF callee = "function"
    THEN FunctionDefinition("f", <<"x">>,
             Block(<<StaticVar("k", Some(Number(0))),
                     Return(Some(Binary(Number(1), "Divide", Variable("x"))))>>))
    ELSE Assignment("c", ArrowFunction(<<"x">>, Binary(Number(1), "Divide", Variable("x"))))

\* The argument of the call: 1 / 0 fails as an argument, 0 makes the body fail, and 2
\* makes the call succeed.
FailArg(at) ==
    CASE at = "argument" -> Binary(Number(1), "Divide", Number(0))
      [] at = "body" -> Number(0)
      [] OTHER -> Number(2)

\* $g = 1; <definition>; $r = f(<argument>);   or   $r = $c(<argument>);
FailProgram(callee, at) ==
    Block(<<Assignment("g", Number(1)), DefineInverse(callee),
            Assignment("r", IF callee = "function" THEN FunctionCall("f", <<FailArg(at)>>)
                            ELSE DynamicCall(Variable("c"), <<FailArg(at)>>))>>)

RunFailing ==
    /\ obs.op = "init"
    /\ \E callee \in {"function", "closure"}, at \in {"argument", "body", "nowhere"} :
          RanFlow(execute_stmt(FailProgram(callee, at), engine),
                  [op |-> "failing", callee |-> callee, at |-> at])

\* The values of the caller's variables $a and $b.
CallerValue(name) == IF name = "a" THEN 1 ELSE 2

\* $a = 1; $b = 2; function f($p, $q) { return $p . "," . $q; } $r = f($first, $second);
\* with the parameters named by `params`, or the same with a closure.
SwapProgram(callee, params, first, second) ==
    Block(<<Assignment("a", Number(CallerValue("a"))), Assignment("b", Number(CallerValue("b"))),
            IF callee = "function"
            THEN FunctionDefinition("f", params,
                     Block(<<Return(Some(Binary(Binary(Variable(params[1]), "Concatenate",
                                                       Str(<<",">>)),
                                                "Concatenate", Variable(params[2]))))>>))
            ELSE Assignment("c", ArrowFunction(params,
                     Binary(Binary(Variable(params[1]), "Concatenate", Str(<<",">>)),
                            "Concatenate", Variable(params[2])))),
            Assignment("r", IF callee = "function"
                            THEN FunctionCall("f", <<Variable(first), Variable(second)>>)
                            ELSE DynamicCall(Variable("c"),
                                             <<Variable(first), Variable(second)>>))>>)

RunSwap ==
    /\ obs.op = "init"
    /\ \E callee \in {"function", "closure"},
          params \in {<<"a", "b">>, <<"b", "a">>, <<"p", "q">>},
          first \in {"a", "b"}, second \in {"a", "b"} :
          RanFlow(execute_stmt(SwapProgram(callee, params, first, second), engine),
                  [op |-> "swap", callee |-> callee, params |-> params,
                   first |-> first, second |-> second])

\* function f($d) { static $n = 0; $n++; echo $n; if ($d > 0) { f($d - 1); } }  f(depth);
RecursiveProgram(depth) ==
    Block(<<FunctionDefinition("f", <<"d">>,
                Block(<<StaticVar("n", Some(Number(0))),
                        Expression(Unary("PostIncrement", Variable("n"))),
                        Echo(Variable("n")),
                        If(Binary(Variable("d"), "GreaterThan", Number(0)),
                           Expression(FunctionCall("f", <<Binary(Variable("d"), "Subtract",
                                                                  Number(1))>>)),
                           None)>>)),
            Expression(FunctionCall("f", <<Number(depth)>>))>>)

MaxDepth == 2

RunRecursive ==
    /\ obs.op = "init"
    /\ \E depth \in 0..MaxDepth :
          RanFlow(execute_stmt(RecursiveProgram(depth), engine),
                  [op |-> "recursive", depth |-> depth])

\* The names a program gives its functions.
UserNames == {"f", "__closure_1", "__closure_2"}

Interleaving == obs.op \in {"init", "define", "closure"} /\ steps < MaxOps

\* function <name>() { return 7; }
DefineUser ==
    /\ Interleaving
    /\ \E name \in UserNames :
          /\ hist' = [hist EXCEPT !.user = @ \cup {name}]
          /\ engine' = execute_stmt(FunctionDefinition(name, <<>>,
                                        Block(<<Return(Some(Number(7)))>>)), engine).e
          /\ obs' = [op |-> "define", name |-> name, before |-> engine]
    /\ steps' = steps + 1
    /\ UNCHANGED <<arr, hasher, pool, reqs>>

\* $c = fn($x) => $x;
EvalClosure ==
    /\ Interleaving
    /\ engine' = execute_stmt(Assignment("c", ArrowFunction(<<"x">>, Variable("x"))), engine).e
    /\ hist' = [hist EXCEPT !.closures = Append(@, engine'.variables["c"].s)]
    /\ obs' = [op |-> "closure", before |-> engine, closures |-> hist.closures]
    /\ steps' = steps + 1
    /\ UNCHANGED <<arr, hasher, pool, reqs>>

NextTop == ReadName \/ RunFailing \/ RunSwap \/ RunRecursive \/ DefineUser \/ EvalClosure

SpecTop == InitTop /\ [][NextTop]_vars

\* C23: reading a variable that is not defined yields Null, raises no error and does
\* not define the variable; reading a constant that is not defined, and calling a
\* function that is neither a built-in nor in the function table, fail the execution
\* with an error.
C23_UndefinedNames ==
    obs.op = "read" =>
        /\ obs.defined => obs.ok /\ engine.output[Len(engine.output)] = "q"
        /\ (~obs.defined /\ obs.kind = "variable") =>
              /\ obs.ok
              /\ "u" \notin DOMAIN engine.variables
              /\ engine.output = <<"q">>
              /\ obs.context = "assign" => engine.variables["r"] = VNull
              /\ obs.context = "operand" => engine.variables["r"] = VStr(<<"s">>)
        /\ (~obs.defined /\ obs.kind \in {"constant", "function"}) =>
              /\ ~obs.ok
              /\ engine.output = <<>>
              /\ "r" \notin DOMAIN engine.variables

\* C23 witness: the constant U, which is not defined, was read as an operand of a
\* concatenation and the execution failed before the echo that follows.
C23_Witness ==
    /\ obs.op = "read" /\ obs.kind = "constant" /\ ~obs.defined /\ obs.context = "operand"
    /\ ~obs.ok
    /\ engine.output = <<>>

\* C25: whenever execute_stmt returns, with Ok or with Err, the engine is back at top
\* level: static_var_stack is empty, current_function is None and the variables are
\* those of the top-level scope, without the callee's parameter $x; also when the error
\* came from an argument or from the body of a function or closure.
C25_BackAtTopLevel ==
    obs.op = "failing" =>
        /\ engine.static_var_stack = <<>>
        /\ engine.current_function = None
        /\ "x" \notin DOMAIN engine.variables

\* What the engine is left with: at top level after a call that succeeded or a closure
\* whose argument failed; inside the frame of f after a function call that failed; with
\* the parameter $x among the variables after a body that failed.
FrameLeftOnError ==
    obs.op = "failing" =>
        /\ obs.ok <=> obs.at = "nowhere"
        /\ (obs.ok \/ obs.callee = "closure") =>
              engine.static_var_stack = <<>> /\ engine.current_function = None
        /\ (~obs.ok /\ obs.callee = "function") =>
              /\ engine.current_function = Some("f")
              /\ Len(engine.static_var_stack) = 1
        /\ "x" \in DOMAIN engine.variables <=> obs.at = "body"

\* "1" or "2": the text of the caller's $a or $b.
CallerText(name) == NatToStr(CallerValue(name))

\* C26: the argument expressions of a call are all evaluated in the caller's scope:
\* with $a = 1 and $b = 2, f($first, $second) binds the first parameter to the caller's
\* $first and the second to the caller's $second, whatever the parameters are named.
C26_ArgumentsInCallerScope ==
    obs.op = "swap" =>
        /\ obs.ok
        /\ engine.variables["r"] =
              VStr(CallerText(obs.first) \o <<",">> \o CallerText(obs.second))

\* What the call binds: the second argument reads the first parameter's new value when
\* it names that parameter.
ArgumentsSeeBoundParams ==
    obs.op = "swap" =>
        /\ obs.ok
        /\ engine.variables["r"] =
              VStr(CallerText(obs.first) \o <<",">>
                   \o CallerText(IF obs.second = obs.params[1] THEN obs.first
                                 ELSE obs.second))

RECURSIVE Counting(_, _)
\* "1", "2", ..., the texts of from..to.
Counting(from, to) == IF from > to THEN <<>> ELSE NatToStr(from) \o Counting(from + 1, to)

\* C27: a static variable is one slot per function also under recursion: a nested
\* invocation starts from the value the outer one holds, and after the outermost
\* invocation static_storage holds the updates of all of them; f incrementing $n and
\* calling itself once leaves $n = 2.
C27_StaticUnderRecursion ==
    obs.op = "recursive" =>
        /\ obs.ok
        /\ engine.output = Counting(1, obs.depth + 1)
        /\ to_int(engine.static_storage["f"]["n"]) = obs.depth + 1

\* What the engine does: every invocation starts from the stored value, which is
\* written only when an invocation returns, so each one counts 0 to 1.
StaticPerInvocation ==
    obs.op = "recursive" =>
        /\ obs.ok
        /\ engine.output = [i \in 1..(obs.depth + 1) |-> "1"]
        /\ to_int(engine.static_storage["f"]["n"]) = 1

\* The name the last closure literal was given.
LastClosure == hist.closures[Len(hist.closures)]

\* C28: every evaluation of a closure literal yields a name that is not yet in the
\* function table, so it replaces no user-defined function and no earlier closure, and
\* no two evaluations yield the same name, for any interleaving of function
\* definitions and closure evaluations.
C28_FreshClosureNames ==
    obs.op = "closure" =>
        /\ JoinChars(LastClosure) \notin DOMAIN obs.before.functions
        /\ LastClosure \notin Range(obs.closures)

\* The name is "__closure_" and the size of the function table; it is fresh when the
\* program has given no function of its own such a name.
ClosureNameByCount ==
    obs.op = "closure" =>
        /\ LastClosure = closure_id(obs.before)
        /\ hist.user \subseteq {"f"} =>
              /\ JoinChars(LastClosure) \notin DOMAIN obs.before.functions
              /\ LastClosure \notin Range(obs.closures)

(***************************************************************************)
(* SpecRun: the statements of SpecOb as one run of a program, which ends   *)
(* when its caller reads get_output.                                       *)
(***************************************************************************)
\* print!("{}", engine.get_output()): the run is over and its output is delivered.
Finish ==
    /\ obs.op # "finished"
    /\ obs' = [op |-> "finished", ok |-> TRUE, before |-> engine, account |-> hist,
               delivered |-> get_output(engine)]
    /\ steps' = MaxOps
    /\ UNCHANGED <<engine, hist, arr, hasher, pool, reqs>>

NextRun == ObStart \/ Write \/ ObGetClean \/ EchoClean \/ Finish

SpecRun == InitOb /\ [][NextRun]_vars

RECURSIVE Flat(_)
\* The texts of the open buffers, from the first started to the last.
Flat(stack) == IF stack = <<>> THEN <<>> ELSE Head(stack) \o Flat(Tail(stack))

\* C29: no output is lost: every text written by echo, print or printf appears in the
\* final output or in the value an ob_get_clean returned; the text of the buffers still
\* open when the run ends is delivered to the final output.
C29_NoOutputLost ==
    obs.op = "finished" => obs.delivered = hist.final \o Flat(hist.stack)

\* What is delivered: the text written while no buffer was open; the text of the
\* buffers still open stays in output_buffers.
OpenBuffersKept ==
    obs.op = "finished" =>
        /\ obs.delivered = hist.final
        /\ engine.output_buffers = hist.stack

(***************************************************************************)
(* SpecConc: concurrent requests at one EnginePool.  Each request takes    *)
(* the write lock of the pool, pops an engine or makes a new one, runs its *)
(* code, takes the lock again and pushes the engine back.  Every engine    *)
(* carries the number of the Engine::new() that made it.                   *)
(***************************************************************************)
ConcPoolSize == 1
MaxClients == 2
MaxRounds == 2

Clients == 1..MaxClients

\* engines.pop(): the engines that stay and the engine taken, if any.
pop_kept(engines) ==
    [rest |-> engines,
     item |-> IF engines = <<>> THEN None ELSE Some(engines[Len(engines)])]

pop(engines) ==
    [rest |-> IF engines = <<>> THEN engines ELSE SubSeq(engines, 1, Len(engines) - 1),
     item |-> IF engines = <<>> THEN None ELSE Some(engines[Len(engines)])]

\* if engines.len() < self.pool_size { engines.push(engine); }
push_back(engines, pool_size, returned) ==
    IF Len(engines) < pool_size THEN Append(engines, returned) ELSE engines

\* The code every client sends: <?php $x = 1; echo "b";
ClientCode == CHOOSE request \in Requests : request.code = CodeAssign

InitConc ==
    /\ pool = [i \in 1..ConcPoolSize |-> [id |-> i, e |-> EngineNew]]
    /\ reqs = [c \in Clients |-> [pc |-> "get", round |-> 1, engine |-> None,
                                  pooled |-> FALSE]]
    /\ hist = [lock |-> None, next_id |-> ConcPoolSize + 1]
    /\ obs = [op |-> "start"]
    /\ steps = 0
    /\ engine = EngineNew
    /\ arr = PhpArrayNew
    /\ hasher = <<>>

\* self.engines.write().await, in get_engine and in return_engine.
LockWrite(c, from, to) ==
    /\ reqs[c].pc = from
    /\ hist.lock = None
    /\ hist' = [hist EXCEPT !.lock = Some(c)]
    /\ reqs' = [reqs EXCEPT ![c].pc = to]
    /\ obs' = [op |-> "lock", client |-> c]
    /\ UNCHANGED <<pool, steps, engine, arr, hasher>>

LockGet == \E c \in Clients : LockWrite(c, "get", "pop")

\* engines.pop() under the lock, and Engine::new() in the handler when it gave None.
PopEngine ==
    \E c \in Clients :
        /\ reqs[c].pc = "pop"
        /\ pool' = pop(pool).rest
        /\ reqs' = [reqs EXCEPT ![c].pc = "execute",
                                ![c].pooled = pop(pool).item # None,
                                ![c].engine =
                                    IF pop(pool).item # None THEN pop(pool).item
                                    ELSE Some([id |-> hist.next_id, e |-> EngineNew])]
        /\ hist' = [lock |-> None,
                    next_id |-> IF pop(pool).item # None THEN hist.next_id
                                ELSE hist.next_id + 1]
        /\ obs' = [op |-> "got", client |-> c, empty |-> pool = <<>>]
        /\ UNCHANGED <<steps, engine, arr, hasher>>

\* let result = execute_optimized_php(&mut engine, &code).await;
ExecuteClient ==
    \E c \in Clients :
        /\ reqs[c].pc = "execute"
        /\ reqs' = [reqs EXCEPT ![c].pc = "return",
                                ![c].engine =
                                    Some([id |-> reqs[c].engine[1].id,
                                          e |-> execute_optimized_php(reqs[c].engine[1].e,
                                                                      ClientCode).e])]
        /\ obs' = [op |-> "executed", client |-> c]
        /\ UNCHANGED <<pool, hist, steps, engine, arr, hasher>>

\* return_engine: engine.reset(), then the lock.
LockReturn == \E c \in Clients : LockWrite(c, "return", "push")

\* The push under the lock; the engine is gone from the request either way.
PushEngine ==
    \E c \in Clients :
        /\ reqs[c].pc = "push"
        /\ pool' = push_back(pool, ConcPoolSize,
                             [id |-> reqs[c].engine[1].id, e |-> reset(reqs[c].engine[1].e)])
        /\ reqs' = [reqs EXCEPT ![c].pc = "respond", ![c].engine = None]
        /\ hist' = [hist EXCEPT !.lock = None]
        /\ obs' = [op |-> "returned", client |-> c, full |-> Len(pool) >= ConcPoolSize,
                   id |-> reqs[c].engine[1].id, before |-> pool]
        /\ UNCHANGED <<steps, engine, arr, hasher>>

\* The response is sent; the client may send its next request.
RespondClient ==
    \E c \in Clients :
        /\ reqs[c].pc = "respond"
        /\ reqs' = [reqs EXCEPT ![c].pc = IF reqs[c].round < MaxRounds THEN "get" ELSE "done",
                                ![c].round = IF reqs[c].round < MaxRounds THEN @ + 1 ELSE @]
        /\ obs' = [op |-> "response", client |-> c]
        /\ steps' = steps + 1
        /\ UNCHANGED <<pool, hist, engine, arr, hasher>>

NextConc ==
    LockGet \/ PopEngine \/ ExecuteClient \/ LockReturn \/ PushEngine \/ RespondClient

SpecConc == InitConc /\ [][NextConc]_vars

\* The numbers of the engines the requests hold, and of those in the pool.
Holders(id) == {c \in Clients : reqs[c].engine # None /\ reqs[c].engine[1].id = id}
Pooled(id) == {i \in 1..Len(pool) : pool[i].id = id}

\* C24: for every interleaving of requests that call get_engine and return_engine, no
\* engine is held by two requests at the same time (nor by a request and the pool), a
\* request that finds the pool empty goes on with a new engine instead of waiting, and
\* the pool never stores more than pool_size engines: an engine returned to a full pool
\* is dropped.
C24_PoolDiscipline ==
    /\ \A id \in 1..hist.next_id : Cardinality(Holders(id)) + Cardinality(Pooled(id)) <= 1
    /\ Len(pool) <= ConcPoolSize
    /\ \A c \in Clients :
          (reqs[c].pc \in {"execute", "return", "push"}) <=> reqs[c].engine # None
    /\ \A c \in Clients :
          (reqs[c].pc = "execute" /\ ~reqs[c].pooled) =>
              reqs[c].engine[1].e = EngineNew /\ reqs[c].engine[1].id > ConcPoolSize
    /\ obs.op = "got" =>
          /\ reqs[obs.client].pc = "execute"
          /\ obs.empty <=> ~reqs[obs.client].pooled
    /\ obs.op = "returned" =>
          /\ obs.full => pool = obs.before /\ Pooled(obs.id) = {}
          /\ ~obs.full => Cardinality(Pooled(obs.id)) = 1 /\ Len(pool) = Len(obs.before) + 1

\* C24 witness: the requests ran at once, as many of them as the pool has engines on
\* the engines of the pool and one on a new engine that it made when it found the pool
\* empty; the pool is full again and the engine returned last has been dropped.
C24_Witness ==
    /\ obs.op = "returned" /\ obs.full /\ obs.id > ConcPoolSize
    /\ Len(pool) = ConcPoolSize
    /\ \A c \in Clients : reqs[c].round = 1 /\ reqs[c].pc \in {"respond", "get"}

(***************************************************************************)
(* The lexer.  A CharStream is the sequence of the input's characters and  *)
(* the index of the next one; the line and column it counts appear only in *)
(* error values and are left out.                                          *)
(***************************************************************************)
AsciiLetters ==
    {"a", "b", "c", "d", "e", "f", "g", "h", "i", "j", "k", "l", "m", "n", "o", "p", "q", "r",
     "s", "t", "u", "v", "w", "x", "y", "z", "A", "B", "C", "D", "E", "F", "G", "H", "I", "J",
     "K", "L", "M", "N", "O", "P", "Q", "R", "S", "T", "U", "V", "W", "X", "Y", "Z"}

\* char::is_whitespace and char::is_alphanumeric on the ASCII characters of the model.
is_whitespace(ch) == ch \in Whitespace
is_alphanumeric(ch) == ch \in AsciiLetters \cup DigitSet

TString(s) == [t |-> "String", s |-> s]
TIdentifier(word) == [t |-> "Identifier", name |-> word]

\* LexResult<Token> together with the stream's index afterwards.
LexOk(tok, i) == [ok |-> TRUE, err |-> "", tok |-> tok, i |-> i]
LexErr(err, i) == [ok |-> FALSE, err |-> err, tok |-> Tok("EOF"), i |-> i]

\* CharStream::peek_ahead: up to count characters from the next one on.
peek_ahead(s, i, count) == SubSeq(s, i, IF i + count - 1 <= Len(s) THEN i + count - 1 ELSE Len(s))

RECURSIVE skip_whitespace(_, _)
skip_whitespace(s, i) ==
    IF i <= Len(s) /\ is_whitespace(s[i]) THEN skip_whitespace(s, i + 1) ELSE i

\* The index after the run of alphanumeric characters and '_' that starts at i.
RECURSIVE read_identifier(_, _)
read_identifier(s, i) ==
    IF i <= Len(s) /\ (is_alphanumeric(s[i]) \/ s[i] = "_") THEN read_identifier(s, i + 1)
    ELSE i

\* KeywordHandler::new: the words of the table and their tokens.
Keywords ==
    [echo |-> "Echo", print |-> "Print", if |-> "If", else |-> "Else", while |-> "While",
     for |-> "For", function |-> "Function", return |-> "Return", class |-> "Class",
     extends |-> "Extends", implements |-> "Implements", new |-> "New", public |-> "Public",
     private |-> "Private", protected |-> "Protected", static |-> "Static", var |-> "Var",
     const |-> "Const", true |-> "True", false |-> "False", null |-> "Null",
     isset |-> "Isset", empty |-> "Empty", switch |-> "Switch", case |-> "Case",
     default |-> "Default", break |-> "Break", continue |-> "Continue", do |-> "Do",
     print_r |-> "PrintR", strlen |-> "Strlen", strpos |-> "Strpos", substr |-> "Substr",
     array_push |-> "ArrayPush", array_pop |-> "ArrayPop", array_merge |-> "ArrayMerge",
     in_array |-> "InArray", explode |-> "Explode", implode |-> "Implode", count |-> "Count"]

lookup_keyword(word) ==
    IF JoinChars(word) \in DOMAIN Keywords THEN Tok(Keywords[JoinChars(word)])
    ELSE TIdentifier(word)

\* LiteralHandler::tokenize_variable
tokenize_variable(s, i) ==
    IF read_identifier(s, i + 1) = i + 1 THEN LexErr("UnexpectedChar", i + 1)
    ELSE LexOk(TVariable(SubSeq(s, i + 1, read_identifier(s, i + 1) - 1)),
               read_identifier(s, i + 1))

\* The index after the run of digits and '.' that starts at i.
RECURSIVE number_end(_, _)
number_end(s, i) ==
    IF i <= Len(s) /\ (s[i] \in DigitSet \/ s[i] = ".") THEN number_end(s, i + 1) ELSE i

\* number_str.parse::<f64>() on digits and dots: digits, then at most one '.' and
\* digits.  The token carries the integer part, and the fraction when it is not zero.
parse_f64(number_str) ==
    LET dots == {k \in 1..Len(number_str) : number_str[k] = "."}
        whole == IF dots = {} THEN number_str
                 ELSE SubSeq(number_str, 1, (CHOOSE k \in dots : TRUE) - 1)
        frac == IF dots = {} THEN <<>>
                ELSE trim_end_matches(
                         SubSeq(number_str, (CHOOSE k \in dots : TRUE) + 1, Len(number_str)),
                         "0")
    IN IF Cardinality(dots) > 1 \/ whole = <<>> THEN None
       ELSE IF frac = <<>> THEN Some(TNumber(DigitsToNat(whole, 0)))
       ELSE Some([t |-> "Number", n |-> DigitsToNat(whole, 0), frac |-> frac])

\* LiteralHandler::tokenize_number, CharStream::read_number
tokenize_number(s, i) ==
    IF parse_f64(SubSeq(s, i, number_end(s, i) - 1)) = None
    THEN LexErr("InvalidNumber", number_end(s, i))
    ELSE LexOk(parse_f64(SubSeq(s, i, number_end(s, i) - 1))[1], number_end(s, i))

\* The escape sequences of read_string.
unescaped(escaped) ==
    CASE escaped = "n" -> <<"\n">>
      [] escaped = "t" -> <<"\t">>
      [] escaped = "r" -> <<"\r">>
      [] escaped \in {"\\", "'", "\""} -> <<escaped>>
      [] OTHER -> <<"\\", escaped>>

\* CharStream::read_string after the opening quote.
RECURSIVE read_string(_, _, _, _)
read_string(s, i, quote, string_content) ==
    IF i > Len(s) THEN LexErr("UnterminatedString", i)
    ELSE IF s[i] = quote THEN LexOk(TString(string_content), i + 1)
    ELSE IF s[i] = "\\"
    THEN IF i + 1 > Len(s) THEN read_string(s, i + 1, quote, string_content)
         ELSE read_string(s, i + 2, quote, string_content \o unescaped(s[i + 1]))
    ELSE read_string(s, i + 1, quote, Append(string_content, s[i]))

\* LiteralHandler::tokenize_string
tokenize_string(s, i) == read_string(s, i + 1, s[i], <<>>)

\* tokenize_heredoc: the identifier after <<< and the index after it; a nowdoc
\* identifier stands between single quotes.
RECURSIVE nowdoc_identifier(_, _, _), heredoc_identifier(_, _, _)
nowdoc_identifier(s, i, identifier) ==
    IF i > Len(s) THEN [identifier |-> identifier, i |-> i]
    ELSE IF s[i] = "'" THEN [identifier |-> identifier, i |-> i + 1]
    ELSE IF s[i] \in {"\n", "\r"} THEN [identifier |-> identifier, i |-> i]
    ELSE nowdoc_identifier(s, i + 1, Append(identifier, s[i]))

heredoc_identifier(s, i, identifier) ==
    IF i > Len(s) \/ s[i] \in {"\n", "\r"} \/ is_whitespace(s[i])
    THEN [identifier |-> identifier, i |-> i]
    ELSE heredoc_identifier(s, i + 1, Append(identifier, s[i]))

\* Consume the remainder of the line, up to and including the first newline.
RECURSIVE rest_of_line(_, _)
rest_of_line(s, i) ==
    IF i > Len(s) THEN i
    ELSE IF s[i] = "\n" THEN i + 1
    ELSE IF s[i] = "\r" THEN (IF i + 1 <= Len(s) /\ s[i + 1] = "\n" THEN i + 2 ELSE i + 1)
    ELSE rest_of_line(s, i + 1)

\* trimmed == identifier || trimmed == format!("{};", identifier)
is_terminator(current_line, identifier) ==
    trim_end(current_line) = identifier \/ trim_end(current_line) = identifier \o <<";">>

\* The loop of tokenize_heredoc that accumulates the lines up to the terminator.
RECURSIVE heredoc_lines(_, _, _, _, _)
heredoc_lines(s, i, identifier, content, current_line) ==
    IF i > Len(s) THEN LexErr("UnterminatedString", i)
    ELSE IF s[i] \in {"\n", "\r"}
    THEN IF is_terminator(current_line, identifier)
         THEN LexOk(TString(content),
                    IF s[i] = "\r" /\ i + 1 <= Len(s) /\ s[i + 1] = "\n" THEN i + 2 ELSE i + 1)
         ELSE heredoc_lines(s, IF s[i] = "\r" /\ i + 1 <= Len(s) /\ s[i + 1] = "\n"
                               THEN i + 2 ELSE i + 1,
                            identifier, content \o current_line \o <<"\n">>, <<>>)
    ELSE heredoc_lines(s, i + 1, identifier, content, Append(current_line, s[i]))

heredoc_body(s, head) ==
    IF head.identifier = <<>> THEN LexErr("UnterminatedString", rest_of_line(s, head.i))
    ELSE heredoc_lines(s, rest_of_line(s, head.i), head.identifier, <<>>, <<>>)

\* LiteralHandler::tokenize_heredoc, at the first '<' of <<<
tokenize_heredoc(s, i) ==
    IF i + 3 <= Len(s) /\ s[i + 3] = "'"
    THEN heredoc_body(s, nowdoc_identifier(s, i + 4, <<>>))
    ELSE heredoc_body(s, heredoc_identifier(s, i + 3, <<>>))

\* The operators of one or two characters: `second` makes the longer token.
one_or_two(s, i, second, long, short) ==
    IF i + 1 <= Len(s) /\ s[i + 1] = second THEN LexOk(Tok(long), i + 2)
    ELSE LexOk(Tok(short), i + 1)

\* The regex literal of the '/' arm: the pattern up to the next '/' that is not escaped,
\* or up to the end of the input.
RECURSIVE regex_literal(_, _, _, _)
regex_literal(s, i, pattern, escaped) ==
    IF i > Len(s) THEN LexOk(TString(pattern), i)
    ELSE IF escaped THEN regex_literal(s, i + 1, Append(pattern, s[i]), FALSE)
    ELSE IF s[i] = "\\" THEN regex_literal(s, i + 1, Append(pattern, s[i]), TRUE)
    ELSE IF s[i] = "/" THEN LexOk(TString(Append(pattern, s[i])), i + 1)
    ELSE regex_literal(s, i + 1, Append(pattern, s[i]), FALSE)

SingleChars ==
    [c \in {"@", "*", ";", ",", "(", ")", "{", "}", "[", "]"} |->
        CASE c = "@" -> "At" [] c = "*" -> "Multiply" [] c = ";" -> "Semicolon"
          [] c = "," -> "Comma" [] c = "(" -> "OpenParen" [] c = ")" -> "CloseParen"
          [] c = "{" -> "OpenBrace" [] c = "}" -> "CloseBrace" [] c = "[" -> "OpenBracket"
          [] OTHER -> "CloseBracket"]

\* try_php_close without the stream.next() of its fallback.
try_php_close_peeked(s, i) ==
    IF peek_ahead(s, i, 1) = <<">">> THEN LexOk(Tok("PhpClose"), i + 2)
    ELSE LexOk(Tok("PhpClose"), i)

\* OperatorHandler::try_php_close: peek_ahead(1) is the '?' itself, never '>', so the
\* tag's '?' alone is consumed.
try_php_close(s, i) ==
    IF peek_ahead(s, i, 1) = <<">">> THEN LexOk(Tok("PhpClose"), i + 2)
    ELSE LexOk(Tok("PhpClose"), i + 1)

\* OperatorHandler::tokenize_colon is not among the sources; a ':' is taken to be
\* consumed as Token::Colon.
tokenize_colon(s, i) == LexOk(Tok("Colon"), i + 1)

\* Lexer::tokenize_char
tokenize_char(s, i, ch) ==
    CASE ch = "<" ->
            IF peek_ahead(s, i, 5) = <<"<", "?", "p", "h", "p">> THEN LexOk(Tok("PhpOpen"), i + 5)
            ELSE IF peek_ahead(s, i, 3) = <<"<", "<", "<">> THEN tokenize_heredoc(s, i)
            ELSE one_or_two(s, i, "=", "LessOrEqual", "LessThan")
      [] ch = "?" -> try_php_close(s, i)
      [] ch = "$" -> tokenize_variable(s, i)
      [] ch \in {"\"", "'"} -> tokenize_string(s, i)
      [] ch \in DigitSet -> tokenize_number(s, i)
      [] ch = "=" -> one_or_two(s, i, "=", "DoubleEquals", "Equals")
      [] ch = ">" -> one_or_two(s, i, "=", "GreaterOrEqual", "GreaterThan")
      [] ch = "!" -> one_or_two(s, i, "=", "NotEquals", "NotEquals")
      [] ch = "&" -> one_or_two(s, i, "&", "LogicalAnd", "Ampersand")
      [] ch = "+" -> one_or_two(s, i, "+", "Increment", "Plus")
      [] ch = "-" -> IF peek_ahead(s, i, 2) = <<"-", ">">> THEN LexOk(Tok("ObjectOperator"), i + 2)
                     ELSE one_or_two(s, i, "-", "Decrement", "Minus")
      [] ch = "|" -> one_or_two(s, i, "|", "LogicalOr", "Pipe")
      [] ch = "/" ->
            IF i + 1 <= Len(s) /\ s[i + 1] \in {"^", ".", "[", "(", "\\", "*", "+", "{"}
            THEN regex_literal(s, i + 1, <<"/">>, FALSE)
            ELSE LexOk(Tok("Divide"), i + 1)
      [] ch = "." -> IF peek_ahead(s, i, 3) = <<".", ".", ".">> THEN LexOk(Tok("Ellipsis"), i + 3)
                     ELSE LexOk(Tok("Dot"), i + 1)
      [] ch = ":" -> tokenize_colon(s, i)
      [] ch \in DOMAIN SingleChars -> LexOk(Tok(SingleChars[ch]), i + 1)
      [] ch \in AsciiLetters \cup {"_"} ->
            LexOk(lookup_keyword(SubSeq(s, i, read_identifier(s, i) - 1)), read_identifier(s, i))
      [] OTHER -> LexErr("UnexpectedChar", i + 1)

\* CommentHandler::skip_single_line_comment: up to and including the newline.
RECURSIVE skip_single_line_comment(_, _)
skip_single_line_comment(s, i) ==
    IF i > Len(s) THEN i ELSE IF s[i] = "\n" THEN i + 1 ELSE skip_single_line_comment(s, i + 1)

\* CommentHandler::skip_multi_line_comment after the opening /*: the index after the
\* closing */, or None when the input ends first.
RECURSIVE skip_multi_line_comment(_, _)
skip_multi_line_comment(s, i) ==
    IF i > Len(s) THEN None
    ELSE IF s[i] = "*" /\ i + 1 <= Len(s) /\ s[i + 1] = "/" THEN Some(i + 2)
    ELSE skip_multi_line_comment(s, i + 1)

\* CommentHandler::try_skip_comment: Ok(true) with the index after the comment,
\* Ok(false), or the error of a comment that is not closed.
try_skip_comment(s, i) ==
    IF s[i] = "#" \/ peek_ahead(s, i, 2) = <<"/", "/">>
    THEN [ok |-> TRUE, skipped |-> TRUE, i |-> skip_single_line_comment(s, i)]
    ELSE IF peek_ahead(s, i, 2) = <<"/", "*">>
    THEN IF skip_multi_line_comment(s, i + 2) = None
         THEN [ok |-> FALSE, skipped |-> FALSE, i |-> Len(s) + 1]
         ELSE [ok |-> TRUE, skipped |-> TRUE, i |-> skip_multi_line_comment(s, i + 2)[1]]
    ELSE [ok |-> TRUE, skipped |-> FALSE, i |-> i]

\* The loop of Lexer::next_token, after the whitespace has been skipped.
RECURSIVE next_token_loop(_, _)
next_token_loop(s, i) ==
    IF i > Len(s) THEN LexOk(Tok("EOF"), i)
    ELSE IF ~try_skip_comment(s, i).ok THEN LexErr("UnterminatedString", try_skip_comment(s, i).i)
    ELSE IF try_skip_comment(s, i).skipped
    THEN next_token_loop(s, skip_whitespace(s, try_skip_comment(s, i).i))
    ELSE tokenize_char(s, i, s[i])

\* Lexer::next_token
next_token(s, i) == next_token_loop(s, skip_whitespace(s, i))

\* Lexer::tokenize: the tokens up to the first EOF, which is not pushed.
RECURSIVE tokenize_from(_, _, _)
tokenize_from(s, i, tokens) ==
    IF ~next_token(s, i).ok THEN [ok |-> FALSE, err |-> next_token(s, i).err, tokens |-> <<>>]
    ELSE IF next_token(s, i).tok = Tok("EOF") THEN [ok |-> TRUE, err |-> "", tokens |-> tokens]
    ELSE tokenize_from(s, next_token(s, i).i, Append(tokens, next_token(s, i).tok))

tokenize(s) == tokenize_from(s, 1, <<>>)

\* lex: tokenize and push Token::EOF.
lex(s) ==
    IF ~tokenize(s).ok THEN tokenize(s)
    ELSE [ok |-> TRUE, err |-> "", tokens |-> Append(tokenize(s).tokens, Tok("EOF"))]

(***************************************************************************)
(* SpecLex: lex on one input, one step per call of next_token.  obs holds  *)
(* the input, the stream's index, the tokens pushed so far and the number  *)
(* of calls that pushed one; for a heredoc input it also holds the lines   *)
(* the input was built from.                                               *)
(***************************************************************************)
MaxInput == 3

LexChars == {"<", "?", ">", "$", "a", "1", ".", "/", "*", "'", " ", "\n", "#", ":", "~", "_"}

RECURSIVE Strings(_, _)
Strings(chars, n) ==
    IF n = 0 THEN {<<>>}
    ELSE Strings(chars, n - 1)
         \cup {Append(s, c) : s \in {x \in Strings(chars, n - 1) : Len(x) = n - 1}, c \in chars}

\* Longer programs: an opening tag with an echo, comments, a regex literal, a string
\* with an escape, a keyword, operators of two characters.
LexPrograms ==
    {<<"<", "?", "p", "h", "p", " ", "e", "c", "h", "o", " ", "$", "a", ";", "?", ">">>,
     <<"/", "*", "a", "*", "/", "1", ".", "5", "/", "/", "a", "\n", "+", "+">>,
     <<"/", "^", "a", "\\", "/", "/", " ", "\"", "a", "\\", "n", "\"">>,
     <<"a", "-", ">", "b", " ", "&", "&", " ", "|", "|", "!", "=", ".", ".", ".", "@">>,
     <<"[", "1", ",", "2", "]", "(", ")", "{", "}", "<", "=", ">", "=", "=", "=", "-", "-">>}

HeredocLines == {<<"a">>, <<"b", " ">>, <<>>, <<"E", "O">>}
MaxLines == 2

\* The lines of a body, each ended by a newline.
RECURSIVE LinesText(_)
LinesText(lines) ==
    IF lines = <<>> THEN <<>> ELSE Head(lines) \o <<"\n">> \o LinesText(Tail(lines))

\* <<<EOT or <<<'EOT', the body, and the parts of the input after the body:
\* a terminator line EOT or EOT; that ends with a newline, with a CR LF, or with the
\* end of the input, or no terminator line at all.
HeredocTails ==
    {<<"E", "O", "T", "\n">>, <<"E", "O", "T", ";", "\n">>, <<"E", "O", "T", " ", "\r", "\n">>,
     <<"E", "O", "T", ";", "\n", "$", "a">>, <<"E", "O", "T">>, <<>>, <<"E", "O">>}

Terminated(tail) == Len(tail) >= 3 /\ SubSeq(tail, 1, 3) = <<"E", "O", "T">>

HeredocInput(nowdoc, lines, tail) ==
    [input |-> <<"<", "<", "<">>
               \o (IF nowdoc THEN <<"'", "E", "O", "T", "'">> ELSE <<"E", "O", "T">>)
               \o <<"\n">> \o LinesText(lines) \o tail,
     heredoc |-> Some([lines |-> lines, tail |-> tail])]

LexInputs ==
    {[input |-> s, heredoc |-> None] : s \in Strings(LexChars, MaxInput) \cup LexPrograms}
    \cup {HeredocInput(nowdoc, lines, tail) :
            nowdoc \in BOOLEAN,
            lines \in UNION {[1..n -> HeredocLines] : n \in 0..MaxLines},
            tail \in HeredocTails}

InitLex ==
    /\ \E in \in LexInputs :
          obs = [op |-> "lexing", input |-> in.input, heredoc |-> in.heredoc, i |-> 1,
                 tokens |-> <<>>, calls |-> 0, consumed |-> <<>>, err |-> ""]
    /\ engine = EngineNew
    /\ hist = <<>>
    /\ steps = 0
    /\ arr = PhpArrayNew
    /\ hasher = <<>>
    /\ pool = <<>>
    /\ reqs = <<>>

LexUnchanged == UNCHANGED <<engine, hist, steps, arr, hasher, pool, reqs>>

\* A call of next_token that yields a token other than EOF: tokenize pushes it.
PushToken ==
    /\ obs.op = "lexing"
    /\ next_token(obs.input, obs.i).ok
    /\ next_token(obs.input, obs.i).tok # Tok("EOF")
    /\ obs' = [obs EXCEPT !.i = next_token(obs.input, obs.i).i,
                          !.tokens = Append(@, next_token(obs.input, obs.i).tok),
                          !.calls = @ + 1,
                          !.consumed = Append(@, next_token(obs.input, obs.i).i - obs.i)]
    /\ LexUnchanged

\* A call of next_token that yields EOF: tokenize breaks and lex pushes Token::EOF.
PushEof ==
    /\ obs.op = "lexing"
    /\ next_token(obs.input, obs.i).ok
    /\ next_token(obs.input, obs.i).tok = Tok("EOF")
    /\ obs' = [obs EXCEPT !.op = "done", !.i = next_token(obs.input, obs.i).i,
                          !.tokens = Append(@, Tok("EOF"))]
    /\ LexUnchanged

\* A call of next_token that fails: the ? operators of tokenize and lex return the error.
LexFail ==
    /\ obs.op = "lexing"
    /\ ~next_token(obs.input, obs.i).ok
    /\ obs' = [obs EXCEPT !.op = "error", !.i = next_token(obs.input, obs.i).i,
                          !.tokens = <<>>, !.err = next_token(obs.input, obs.i).err]
    /\ LexUnchanged

NextLex == PushToken \/ PushEof \/ LexFail

SpecLex == InitLex /\ [][NextLex]_vars

\* The lines separated by newlines, with no newline after the last one.
RECURSIVE SeparatedLines(_)
SeparatedLines(lines) ==
    IF lines = <<>> THEN <<>>
    ELSE IF Len(lines) = 1 THEN Head(lines)
    ELSE Head(lines) \o <<"\n">> \o SeparatedLines(Tail(lines))

\* C21: for a heredoc or nowdoc whose body is the lines L1..Ln followed by a
\* terminator line, the String token holds L1..Ln separated by newlines, with no
\* newline after Ln and without the terminator line; when the input ends before a
\* terminator line, lexing fails.  (A terminator line that the end of the input
\* cuts off before its newline is left to either outcome.)
C21_HeredocContent ==
    (obs.heredoc # None /\ (obs.op # "lexing" \/ obs.calls >= 1)) =>
        IF obs.heredoc[1].tail = <<"E", "O", "T">>
        THEN obs.op = "error" \/ obs.tokens[1] = TString(SeparatedLines(obs.heredoc[1].lines))
        ELSE IF Terminated(obs.heredoc[1].tail)
        THEN /\ obs.op # "error"
             /\ obs.tokens[1] = TString(SeparatedLines(obs.heredoc[1].lines))
        ELSE obs.op = "error"

\* What the lexer does: every line of the body is kept with a newline after it, the
\* last one too; the terminator line is left out; and a terminator line counts only
\* when a newline follows it, so that without one the lexer fails as it does
\* when there is no terminator line.
HeredocLinesWithNewlines ==
    (obs.heredoc # None /\ (obs.op # "lexing" \/ obs.calls >= 1)) =>
        IF Terminated(obs.heredoc[1].tail) /\ obs.heredoc[1].tail # <<"E", "O", "T">>
        THEN /\ obs.op # "error"
             /\ obs.tokens[1] = TString(LinesText(obs.heredoc[1].lines))
        ELSE obs.op = "error" /\ obs.err = "UnterminatedString"

consume_semicolon(tokens, position) == consume_token(tokens, position, "Semicolon")

RECURSIVE parse_statement_with_tokens(_, _), parse_block_statement(_, _, _),
          parse_block_statements(_, _, _), parse_function_definition(_, _),
          parse_switch_tokens(_, _), switch_loop(_, _, _, _, _), case_statements(_, _, _, _)

\* StatementParser::parse_echo
parse_echo(tokens, position) ==
    OnParsed(consume_token(tokens, position, "Echo"), LAMBDA echo :
        OnParsed(parse_expression_precedence(tokens, echo.position, 0), LAMBDA e :
            OnParsed(consume_semicolon(tokens, e.position), LAMBDA semi :
                ParseOk(Echo(e.expr), semi.position))))

\* StatementParser::parse_expression_statement
parse_expression_statement(tokens, position) ==
    OnParsed(parse_expression_precedence(tokens, position, 0), LAMBDA e :
        OnParsed(consume_semicolon(tokens, e.position), LAMBDA semi :
            ParseOk(Expression(e.expr), semi.position)))

\* ControlFlowParser::parse_break
parse_break(tokens, position) ==
    OnParsed(consume_token(tokens, position, "Break"), LAMBDA break :
        OnParsed(consume_semicolon(tokens, break.position), LAMBDA semi :
            ParseOk(Break, semi.position)))

\* Parser::parse_statement_with_tokens, for the statements above.
parse_statement_with_tokens(tokens, position) ==
    IF peek(tokens, position) = None THEN parse_expression_statement(tokens, position)
    ELSE CASE tokens[position].t = "Echo" -> parse_echo(tokens, position)
           [] tokens[position].t = "Function" -> parse_function_definition(tokens, position)
           [] tokens[position].t = "Break" -> parse_break(tokens, position)
           [] tokens[position].t = "Switch" -> parse_switch_tokens(tokens, position)
           [] tokens[position].t = "OpenBrace" ->
                 parse_block_statement(tokens, position + 1, <<>>)
           [] OTHER -> parse_expression_statement(tokens, position)

\* The `while` of Parser::parse_block_statement after the opening brace: the closing
\* brace ends it, and so do Token::EOF and the end of the tokens.
parse_block_statement(tokens, position, statements) ==
    IF peek(tokens, position) = None \/ peek(tokens, position) = Some(Tok("EOF"))
    THEN ParseOk(Block(statements), position)
    ELSE IF peek(tokens, position) = Some(Tok("CloseBrace"))
    THEN ParseOk(Block(statements), position + 1)
    ELSE OnParsed(parse_statement_with_tokens(tokens, position), LAMBDA stmt :
            parse_block_statement(tokens, stmt.position, Append(statements, stmt.expr)))

\* StatementParser::parse_block_statements: the closing brace is left to the caller.
parse_block_statements(tokens, position, statements) ==
    IF peek(tokens, position) \in {None, Some(Tok("EOF")), Some(Tok("CloseBrace"))}
    THEN ParseOk(statements, position)
    ELSE OnParsed(parse_statement_with_tokens(tokens, position), LAMBDA stmt :
            parse_block_statements(tokens, stmt.position, Append(statements, stmt.expr)))

\* The function name of parse_function_definition.
function_name(tokens, position) ==
    IF peek(tokens, position) = None THEN ParseErr("UnexpectedEof", position + 1)
    ELSE IF tokens[position].t = "Identifier"
    THEN ParseOk(tokens[position].name, position + 1)
    ELSE ParseErr("ExpectedToken", position + 1)

\* The parameter list of parse_function_definition after the `(`, for parameters
\* without type hints, `...`, `&` and default values.
RECURSIVE function_parameters(_, _, _)
function_parameters(tokens, position, parameters) ==
    IF peek(tokens, position) = None THEN ParseErr("UnexpectedEof", position + 1)
    ELSE IF tokens[position].t # "Variable" THEN ParseErr("ExpectedToken", position + 1)
    ELSE IF peek(tokens, position + 1) = Some(Tok("Comma"))
    THEN function_parameters(tokens, position + 2, Append(parameters, tokens[position].name))
    ELSE IF peek(tokens, position + 1) = Some(Tok("CloseParen"))
    THEN ParseOk(Append(parameters, tokens[position].name), position + 2)
    ELSE ParseErr("ExpectedToken", position + 1)

\* StatementParser::parse_function_definition, without a return type hint.
parse_function_definition(tokens, position) ==
    OnParsed(consume_token(tokens, position, "Function"), LAMBDA function :
    OnParsed(function_name(tokens, function.position), LAMBDA name :
    OnParsed(consume_token(tokens, name.position, "OpenParen"), LAMBDA open :
    OnParsed(IF peek(tokens, open.position) = Some(Tok("CloseParen"))
             THEN ParseOk(<<>>, open.position + 1)
             ELSE function_parameters(tokens, open.position, <<>>), LAMBDA parameters :
    OnParsed(consume_token(tokens, parameters.position, "OpenBrace"), LAMBDA brace :
    OnParsed(parse_block_statements(tokens, brace.position, <<>>), LAMBDA body :
    OnParsed(consume_token(tokens, body.position, "CloseBrace"), LAMBDA close :
        ParseOk(FunctionDefinition(name.expr, parameters.expr, Block(body.expr)),
                close.position))))))))

\* The inner `loop` of parse_switch that collects the statements of a case (stops
\* holds Case, Default and CloseBrace) or of the default (stops holds CloseBrace).
case_statements(tokens, position, stops, stmts) ==
    IF peek(tokens, position) = None THEN ParseErr("UnexpectedEof", position)
    ELSE IF tokens[position].t = "Break"
    THEN OnParsed(consume_token(tokens, position, "Break"), LAMBDA break :
            OnParsed(consume_semicolon(tokens, break.position), LAMBDA semi :
                ParseOk(stmts, semi.position)))
    ELSE IF tokens[position].t \in stops THEN ParseOk(stmts, position)
    ELSE OnParsed(parse_statement_with_tokens(tokens, position), LAMBDA stmt :
            case_statements(tokens, stmt.position, stops, Append(stmts, stmt.expr)))

\* The `while` of parse_switch after the `{`, and the closing brace after it.
switch_loop(tokens, position, expr, cases, default_block) ==
    IF peek(tokens, position) = None \/ peek(tokens, position) = Some(Tok("CloseBrace"))
    THEN OnParsed(consume_token(tokens, position, "CloseBrace"), LAMBDA close :
            ParseOk(Switch(expr, cases, default_block), close.position))
    ELSE IF tokens[position].t = "Case"
    THEN OnParsed(parse_expression_precedence(tokens, position + 1, 0), LAMBDA value_expr :
         OnParsed(consume_token(tokens, value_expr.position, "Colon"), LAMBDA colon :
         OnParsed(case_statements(tokens, colon.position, {"Case", "Default", "CloseBrace"},
                                  <<>>), LAMBDA stmts :
            switch_loop(tokens, stmts.position, expr,
                        Append(cases, SwitchCase(value_expr.expr, stmts.expr)),
                        default_block))))
    ELSE IF tokens[position].t = "Default"
    THEN OnParsed(consume_token(tokens, position + 1, "Colon"), LAMBDA colon :
         OnParsed(case_statements(tokens, colon.position, {"CloseBrace"}, <<>>), LAMBDA stmts :
            switch_loop(tokens, stmts.position, expr, cases, Some(stmts.expr))))
    ELSE ParseErr("UnexpectedToken", position)

\* ControlFlowParser::parse_switch on the tokens.
parse_switch_tokens(tokens, position) ==
    OnParsed(consume_token(tokens, position, "Switch"), LAMBDA switch :
    OnParsed(consume_token(tokens, switch.position, "OpenParen"), LAMBDA open :
    OnParsed(parse_expression_precedence(tokens, open.position, 0), LAMBDA expr :
    OnParsed(consume_token(tokens, expr.position, "CloseParen"), LAMBDA close :
    OnParsed(consume_token(tokens, close.position, "OpenBrace"), LAMBDA brace :
        switch_loop(tokens, brace.position, expr.expr, <<>>, None))))))

\* The `while` of Parser::parse_block.
RECURSIVE parse_block_loop(_, _, _)
parse_block_loop(tokens, position, statements) ==
    IF peek(tokens, position) = None \/ peek(tokens, position) = Some(Tok("EOF"))
    THEN ParseOk(Block(statements), position)
    ELSE IF peek(tokens, position) = Some(Tok("PhpClose"))
    THEN ParseOk(Block(statements), position + 1)
    ELSE OnParsed(parse_statement_with_tokens(tokens, position), LAMBDA stmt :
            parse_block_loop(tokens, stmt.position, Append(statements, stmt.expr)))

\* Parser::parse and parse_block: an opening tag is skipped.
parse(tokens) ==
    parse_block_loop(tokens, IF peek(tokens, 1) = Some(Tok("PhpOpen")) THEN 2 ELSE 1, <<>>)

(***************************************************************************)
(* SpecUnfinished: parse on a program cut off after any number of its      *)
(* tokens, as the tokens alone and with the Token::EOF that lex appends.   *)
(***************************************************************************)
T1 == TNumber(1)
T2 == TNumber(2)

UnfinishedPrograms ==
    {<<Tok("OpenBrace"), Tok("Echo"), T1, Tok("Semicolon"), Tok("OpenParen"), T2,
       Tok("CloseParen"), Tok("Semicolon"), Tok("CloseBrace")>>,
     <<Tok("Function"), TIdentifier("f"), Tok("OpenParen"), A, Tok("Comma"), B,
       Tok("CloseParen"), Tok("OpenBrace"), Tok("Echo"), Tok("OpenBracket"), T1, Tok("Comma"),
       T2, Tok("CloseBracket"), Tok("Semicolon"), Tok("CloseBrace")>>,
     <<Tok("Switch"), Tok("OpenParen"), T1, Tok("CloseParen"), Tok("OpenBrace"), Tok("Case"),
       T1, Tok("Colon"), Tok("Echo"), T1, Tok("Semicolon"), Tok("Break"), Tok("Semicolon"),
       Tok("Default"), Tok("Colon"), Tok("Echo"), T2, Tok("Semicolon"), Tok("CloseBrace")>>,
     <<Tok("Echo"), Tok("OpenParen"), T1, Tok("Plus"), Tok("OpenParen"), T2, Tok("CloseParen"),
       Tok("CloseParen"), Tok("Semicolon")>>,
     <<Tok("Echo"), Tok("OpenBracket"), T1, Tok("Arrow"), Tok("OpenBracket"), T2,
       Tok("CloseBracket"), Tok("Comma"), Tok("CloseBracket"), Tok("Semicolon")>>,
     <<Tok("PhpOpen"), Tok("OpenBrace"), Tok("OpenBrace"), Tok("Echo"), T1, Tok("Semicolon"),
       Tok("CloseBrace"), Tok("CloseBrace"), Tok("Function"), TIdentifier("g"),
       Tok("OpenParen"), Tok("CloseParen"), Tok("OpenBrace"), Tok("OpenBrace"),
       Tok("CloseBrace"), Tok("CloseBrace")>>,
     <<Tok("OpenBrace"), Tok("Switch"), Tok("OpenParen"), T1, Tok("CloseParen"),
       Tok("OpenBrace"), Tok("Case"), T1, Tok("Colon"), Tok("OpenBrace"), Tok("Echo"),
       Tok("OpenBracket"), Tok("CloseBracket"), Tok("Semicolon"), Tok("CloseBrace"),
       Tok("CloseBrace"), Tok("CloseBrace")>>}

\* The constructs that are open after the tokens, innermost last: the `(` of an
\* expression or of a switch, the `(` of a function's parameters, an array literal's
\* `[`, and a `{` that is the body of the function or of the switch whose keyword came
\* before it, or else a block.
RECURSIVE OpenConstructs(_, _, _, _)
OpenConstructs(tokens, i, open, keyword) ==
    IF i > Len(tokens) THEN open
    ELSE CASE tokens[i].t = "Function" -> OpenConstructs(tokens, i + 1, open, "function")
           [] tokens[i].t = "Switch" -> OpenConstructs(tokens, i + 1, open, "switch")
           [] tokens[i].t = "OpenParen" ->
                 OpenConstructs(tokens, i + 1,
                                Append(open, IF keyword = "function" THEN "parameters"
                                             ELSE "paren"), keyword)
           [] tokens[i].t = "OpenBracket" ->
                 OpenConstructs(tokens, i + 1, Append(open, "array"), keyword)
           [] tokens[i].t = "OpenBrace" ->
                 OpenConstructs(tokens, i + 1, Append(open, keyword), "block")
           [] tokens[i].t \in {"CloseParen", "CloseBracket", "CloseBrace"} ->
                 OpenConstructs(tokens, i + 1, SubSeq(open, 1, Len(open) - 1), keyword)
           [] OTHER -> OpenConstructs(tokens, i + 1, open, keyword)

UnfinishedInputs ==
    UNION {{[tokens |-> SubSeq(program, 1, n) \o (IF eof THEN <<Tok("EOF")>> ELSE <<>>),
             eof |-> eof,
             open |-> OpenConstructs(SubSeq(program, 1, n), 1, <<>>, "block")] :
               n \in 0..Len(program), eof \in BOOLEAN} : program \in UnfinishedPrograms}

InitUnfinished ==
    /\ reqs \in UnfinishedInputs
    /\ obs = [op |-> "init"]
    /\ engine = EngineNew
    /\ steps = 0
    /\ arr = PhpArrayNew
    /\ hist = <<>>
    /\ hasher = <<>>
    /\ pool = <<>>

\* php_parser::parse(tokens)
ParseTokens ==
    /\ obs.op = "init"
    /\ obs' = [op |-> "parsed", ok |-> parse(reqs.tokens).ok, err |-> parse(reqs.tokens).err,
               ast |-> parse(reqs.tokens).expr]
    /\ steps' = steps + 1
    /\ UNCHANGED <<engine, reqs, arr, hist, hasher, pool>>

NextUnfinished == ParseTokens

SpecUnfinished == InitUnfinished /\ [][NextUnfinished]_vars

\* C22: whenever the token sequence ends inside an unfinished construct (an unclosed
\* `{` block, function body, switch, parenthesis or array literal), parse fails with
\* UnexpectedEof and returns no AST.
C22_UnfinishedIsUnexpectedEof ==
    (obs.op = "parsed" /\ reqs.open # <<>>) =>
        ~obs.ok /\ obs.err = "UnexpectedEof" /\ obs.ast = Null

Innermost == reqs.open[Len(reqs.open)]

\* What the parser does.  Without Token::EOF at the end: inside a parenthesis, a
\* function body or a switch the error is UnexpectedEof; inside an array literal it is
\* UnexpectedEof or, after an element, ExpectedToken, and so it is inside the
\* parameters of a function, after a parameter; inside a block it is
\* UnexpectedEof when a statement or an enclosing construct is unfinished, and
\* otherwise parse returns the AST of the blocks as if they were closed.  With
\* Token::EOF at the end the error is never UnexpectedEof.  No failed parse returns an
\* AST.
UnfinishedOutcomes ==
    (obs.op = "parsed" /\ reqs.open # <<>>) =>
        /\ ~obs.ok => obs.ast = Null
        /\ reqs.eof => obs.err \in {"", "ExpectedToken", "UnexpectedToken"}
        /\ (reqs.eof /\ Innermost # "block") => ~obs.ok
        /\ (~reqs.eof /\ Innermost \in {"paren", "function", "switch"}) =>
              obs.err = "UnexpectedEof"
        /\ (~reqs.eof /\ Innermost \in {"array", "parameters"}) =>
              obs.err \in {"UnexpectedEof", "ExpectedToken"}
        /\ (~reqs.eof /\ Innermost = "block") => obs.err \in {"", "UnexpectedEof"}
        /\ obs.ok => \A k \in 1..Len(reqs.open) : reqs.open[k] = "block"

\* An unclosed block parsed to an AST, with and without Token::EOF behind it.
UnclosedBlockParsed ==
    obs.op = "parsed" /\ obs.ok /\ reqs.open = <<"block">> /\ ~reqs.eof

UnclosedParenUnexpectedEof ==
    obs.op = "parsed" /\ obs.err = "UnexpectedEof" /\ reqs.open = <<"paren", "paren">>

====
